---- MODULE Spec2Model ----
(***************************************************************************)
(* Verification model of the hyundai-mini-game road generator and its      *)
(* object pool.                                                            *)
(*                                                                         *)
(*   - ObjectPool        (src/src/core/ObjectPool.js)                      *)
(*   - AssetViewer road  (src/src/main.js)                                 *)
(*   - LowPolyViewer     (src/src/lowpoly.js)                              *)
(*                                                                         *)
(* Each program object has its own variables and its own specification;    *)
(* a specification leaves the variables of the other objects untouched.    *)
(***************************************************************************)
EXTENDS Integers, Sequences, FiniteSets, TLC

(***************************************************************************)
(* Bounds of the model.                                                    *)
(***************************************************************************)
\* factory calls explored for one pool
MaxObjects == 3
\* pool operations explored in one behaviour
MaxOps == 6
\* initialSize values explored: 0..MaxInitial
MaxInitial == 2
\* road instances cloned in one behaviour of the viewer
MaxPieces == 5
\* targetCount values explored for generateRoad: 0..MaxCount
MaxCount == 5
\* initialCount values explored for initInfiniteRoad: 0..MaxInitialSegments
MaxInitialSegments == 4
\* commands given to the viewer in one behaviour
MaxCalls == 2
\* largest distance the car advances in one frame
MaxTickStep == 12
\* generateRoad(20): occurrences of the rarer kind of piece in the road
MaxMinority == 3
\* road instances cloned in one drive on the infinite road
MaxStreamPieces == 12
\* the count given to spawnProceduralRoadSystem1
MaxSystem1Count == 8

\* calls of spawnSpineAndBranchSystem3
MaxRuns == 2

\* a slow drive: world units per frame, and segments cloned
SlowTickStep == 1

MaxCrawlPieces == 6

\* generateRoad of lowpoly.js: the count argument, the pieces committed
\* in one run, and the calls
MaxGenerateCount == 9

MaxGeneratePieces == 4

MaxGenerateCalls == 1

MaxInvocations == 2

MaxAsyncCount == 1

MaxNetworkCount == 3

MaxUpdates == 2

MaxCurves == 1

MaxHeading == 1

\* calls of BuildingManager.update
MaxBmUpdates == 3

\* the length of the pattern Math.random() repeats
PatternLen == 3

(***************************************************************************)
(* Generic helpers.                                                        *)
(***************************************************************************)
Range(s) == {s[i] : i \in 1..Len(s)}

Last(s) == s[Len(s)]

Front(s) == SubSeq(s, 1, Len(s) - 1)

\* s without its element at index i
RemoveAt(s, i) == SubSeq(s, 1, i - 1) \o SubSeq(s, i + 1, Len(s))

\* s without the (single) occurrence of x
Without(s, x) == SelectSeq(s, LAMBDA y : y # x)

Max(a, b) == IF a >= b THEN a ELSE b

Min(a, b) == IF a <= b THEN a ELSE b

(***************************************************************************)
(* Geometry shared by the road generators.                                 *)
(*                                                                         *)
(* World positions are pairs <<x, z>> of integers; rotations about the Y   *)
(* axis are whole quarter turns 0..3.  A template is the data of a GLB     *)
(* asset that the generators read: whether findSocketOut finds a socket,   *)
(* the socket's local offset and its local quarter turn.  A piece is a     *)
(* placed clone: [id, name, pos, rot, mirror].                             *)
(***************************************************************************)
VAdd(a, b) == <<a[1] + b[1], a[2] + b[2]>>

\* squared Euclidean distance (Vector3.distanceTo, squared)
Dist2(a, b) == (a[1] - b[1]) * (a[1] - b[1]) + (a[2] - b[2]) * (a[2] - b[2])

\* least k >= 0 with k * k >= n: Math.ceil(Math.sqrt(n))
CeilSqrt(n) == CHOOSE k \in 0..n :
                 /\ k * k >= n
                 /\ (k = 0 \/ (k - 1) * (k - 1) < n)

\* rotation of a vector about Y by q quarter turns (applyQuaternion)
Rot(q, v) ==
    CASE q % 4 = 0 -> v
      [] q % 4 = 1 -> <<v[2], -v[1]>>
      [] q % 4 = 2 -> <<-v[1], -v[2]>>
      [] q % 4 = 3 -> <<-v[2], v[1]>>

\* Math.round(n / d) for integers n and d > 0: halves go up
RoundDiv(n, d) == (2 * n + d) \div (2 * d)

Origin == <<0, 0>>

\* distances the car advances in one frame
TickSteps == {MaxTickStep}

RoadNames == {"road_long", "road_short", "road_curve_wide", "road_curve_tight"}

StraightNames == {"road_long", "road_short"}

\* The road pieces of the asset pack.  The straights span 20 and 10 units
\* along -Z; a curve turns a quarter turn and ends as far ahead as aside.
TemplateGeometry ==
    [road_long        |-> [off |-> <<0, -20>>, turn |-> 0],
     road_short       |-> [off |-> <<0, -10>>, turn |-> 0],
     road_curve_wide  |-> [off |-> <<-10, -10>>, turn |-> 1],
     road_curve_tight |-> [off |-> <<-5, -5>>, turn |-> 1]]

\* the template sets explored: each asset has or lacks a socket node
TemplateSets ==
    {[n \in RoadNames |->
        [hasSocket |-> n \notin missing,
         off |-> TemplateGeometry[n].off,
         turn |-> TemplateGeometry[n].turn]] :
       missing \in {{}, {"road_short"}, {"road_long", "road_short"}}}

\* the socket's offset in the piece's frame, with scale and mirror applied
SocketLocal(t, scale, mirror) ==
    <<(IF mirror THEN -scale ELSE scale) * t.off[1], scale * t.off[2]>>

\* socket.getWorldPosition of a placed piece
SocketWorldPos(t, piece, scale) ==
    VAdd(piece.pos, Rot(piece.rot, SocketLocal(t, scale, piece.mirror)))

\* socket.getWorldQuaternion of a placed piece: a mirrored clone turns the
\* other way
SocketWorldRot(t, piece) ==
    (piece.rot + (IF piece.mirror THEN 4 - t.turn ELSE t.turn)) % 4

\* cellKey(x, z) for the point start + (end - start) * i / steps, the
\* coordinates kept as exact fractions over steps
CellAt(start, end, i, steps, cellSize) ==
    <<RoundDiv(start[1] * steps + (end[1] - start[1]) * i, steps * cellSize),
      RoundDiv(start[2] * steps + (end[2] - start[2]) * i, steps * cellSize)>>

\* the cells of the points sampled every unit from start to end
LineCells(start, end, cellSize) ==
    LET steps == Max(1, CeilSqrt(Dist2(start, end)))
    IN  {CellAt(start, end, i, steps, cellSize) : i \in 0..steps}

(***************************************************************************)
(* State.                                                                  *)
(*                                                                         *)
(* ObjectPool (src/src/core/ObjectPool.js).  Objects are numbered in the   *)
(* order the factory creates them: the k-th call of createFn returns       *)
(* object k.  Object 0 is an object the factory never returns.             *)
(*   available : this.available, an array used as a stack                  *)
(*   inUse     : this.inUse, a JS Set; kept as a sequence without          *)
(*               duplicates because a Set iterates in insertion order      *)
(*   hasResetFn: whether resetFn was given to the constructor              *)
(*   hookThrows: whether the reset hook throws when it is called           *)
(*   created   : number of createFn calls so far                           *)
(*   resetCalls, disposeCalls : calls of the reset / dispose hook per      *)
(*               object                                                    *)
(*   freedAt   : per object, the value of pushes when it was last pushed   *)
(*               on the free list (0: never)                               *)
(*   pushes    : number of pushes on the free list so far                  *)
(*   ops       : number of operations called so far                        *)
(*   last      : the operation called last, its argument and its outcome   *)
(***************************************************************************)
VARIABLES available, inUse, hasResetFn, hookThrows, created, resetCalls,
          disposeCalls, freedAt, pushes, ops, last

poolVars == <<available, inUse, hasResetFn, hookThrows, created, resetCalls,
              disposeCalls, freedAt, pushes, ops, last>>

(***************************************************************************)
(* AssetViewer (src/src/main.js): procedural road and infinite road.       *)
(*   tpl              : the templates the GLB loader delivers              *)
(*   loadedAssets     : names of the entries of this.loadedAssets          *)
(*   assetInstances   : per asset name, the ids in asset.instances         *)
(*   scene            : ids of the road instances that are in the scene    *)
(*   roadPieces       : this.roadPieces                                    *)
(*   occupiedCells    : this.occupiedCells                                 *)
(*   lastCurveDir, sameDirCount, straightsSinceCurve : direction tracking  *)
(*   activeSegments   : this.activeSegments, records [road, path]          *)
(*   segmentPaths     : this.segmentPaths, records [of, from, to]          *)
(*   currentSegmentIndex : 0-based, as in the source                       *)
(*   currentPathT     : progress on the current path, in world units       *)
(*   car              : [present, pos]                                     *)
(*   isCarMoving, infiniteRoadEnabled                                      *)
(*   nextId           : instances cloned so far                            *)
(*   gen              : position in generateRoad's loop, [on, left]        *)
(*   calls            : commands called so far (generateRoad, clearRoad,   *)
(*                      initInfiniteRoad, startCar, stopCar,               *)
(*                      toggleInfiniteRoad)                                *)
(*   evt              : what the handler that ran last did                 *)
(* Buildings are left out: they touch none of the road state.              *)
(***************************************************************************)
VARIABLES tpl, loadedAssets, assetInstances, scene, roadPieces,
          occupiedCells, lastCurveDir, sameDirCount, straightsSinceCurve,
          activeSegments, segmentPaths, currentSegmentIndex, currentPathT,
          car, isCarMoving, infiniteRoadEnabled, nextId, gen, calls, evt

viewerVars == <<tpl, loadedAssets, assetInstances, scene, roadPieces,
                occupiedCells, lastCurveDir, sameDirCount,
                straightsSinceCurve, activeSegments, segmentPaths,
                currentSegmentIndex, currentPathT, car, isCarMoving,
                infiniteRoadEnabled, nextId, gen, calls, evt>>

(***************************************************************************)
(* LowPolyViewer.spawnProceduralRoadSystem1 (src/src/lowpoly.js).          *)
(*   lpTpl      : the templates the GLB loader delivers                    *)
(*   lpLoaded   : the keys of `templates` (the assets that loaded)         *)
(*   lpCount    : the count argument                                       *)
(*   lpPieces   : this.roadPieces                                          *)
(*   lpOccupied : this.occupiedCells                                       *)
(*   lpRecent   : recentCellSets                                           *)
(*   lpDir      : [lastCurveDir, sameDirCount, straightsSinceCurve]        *)
(*   lpI        : the loop variable i                                      *)
(*   lpPc       : "idle", "loop" (in the spawn loop) or "done"             *)
(***************************************************************************)
VARIABLES lpTpl, lpLoaded, lpCount, lpPieces, lpOccupied, lpRecent, lpDir,
          lpI, lpPc

lowpolyVars == <<lpTpl, lpLoaded, lpCount, lpPieces, lpOccupied, lpRecent,
                 lpDir, lpI, lpPc>>

(***************************************************************************)
(* LowPolyViewer.spawnSpineAndBranchSystem3 (src/src/lowpoly.js).          *)
(*   s3Tpl      : what the GLB loader delivers for Road1 and RoadX:        *)
(*                whether the file loads and which sockets it has          *)
(*   templates  : the keys of `templates` (the files that loaded)          *)
(*   s3Pieces   : this.roadPieces, records [type, pos, rot, chain] where   *)
(*                chain is 0 for the spine and b for the b-th branch       *)
(*   seedState  : the PRNG state, a 32-bit word                            *)
(*   draws      : the spine indices at which seededRandom was called       *)
(*   branches   : the queued branches, records [pos, rot, side, length]    *)
(*   walked     : per queued branch, how often its loop was entered        *)
(*   s3Cur      : currentPos/currentQuat, then branchPos/branchQuat        *)
(*   s3I, s3B, s3J : the loop variables i, the branch number and j         *)
(*   s3Pc       : "idle", "spine", "branches" or "done"                    *)
(*   s3Runs     : calls of spawnSpineAndBranchSystem3 so far               *)
(*   s3Trace    : roadPieces, branches and draws of the previous run       *)
(***************************************************************************)
VARIABLES s3Tpl, templates, s3Pieces, seedState, draws, branches, walked,
          s3Cur, s3I, s3B, s3J, s3Pc, s3Runs, s3Trace

system3Vars == <<s3Tpl, templates, s3Pieces, seedState, draws, branches,
                 walked, s3Cur, s3I, s3B, s3J, s3Pc, s3Runs, s3Trace>>

(***************************************************************************)
(* LowPolyViewer.generateRoad (src/src/lowpoly.js).                        *)
(*   grTpl         : the templates the GLB loader delivers                 *)
(*   roadTemplates : the keys of this.roadTemplates                        *)
(*   grPieces      : this.roadPieces                                       *)
(*   grOccupied    : this.occupiedCells                                    *)
(*   grScene       : ids of the road instances that are in the scene       *)
(*   grCur         : currentPos / currentQuat                              *)
(*   consecutiveFailures                                                   *)
(*   grI, grCount  : the loop variable i and the count argument            *)
(*   grPc          : "idle", "loop" (in the spawn loop) or "done"          *)
(*   grCalls       : calls of generateRoad so far                          *)
(*   grEvt         : what the last iteration did: the piece options it     *)
(*                   had, the names it tried in order, whether it ended    *)
(*                   with a piece                                          *)
(***************************************************************************)
VARIABLES grTpl, roadTemplates, grPieces, grOccupied, grScene, grCur,
          consecutiveFailures, grI, grCount, grPc, grCalls, grEvt

generateVars == <<grTpl, roadTemplates, grPieces, grOccupied, grScene, grCur,
                  consecutiveFailures, grI, grCount, grPc, grCalls, grEvt>>

(***************************************************************************)
(* The asynchronous calls of the asset viewer (src/src/main.js) that are   *)
(* suspended at an await:                                                  *)
(*   pending   : the suspended calls, records [op, count, awaiting], each  *)
(*               waiting for its loadRoad(awaiting) to resolve             *)
(*   completed : the initInfiniteRoad calls that have returned, records    *)
(*               [op, count], in the order of their return                 *)
(***************************************************************************)
VARIABLES pending, completed

asyncVars == <<pending, completed>>

(***************************************************************************)
(* LowPolyViewer.spawnRoadNetworkSystem2 (src/src/lowpoly.js):             *)
(*   s2Tpl       : what Road1.glb and RoadX.glb deliver: loads, sockets    *)
(*   s2Templates : the keys of `templates`                                 *)
(*   s2Pieces    : roadPieces, records [type, pos, rot]                    *)
(*   s2Occupied  : occupiedCells                                           *)
(*   openSockets : the queue of open sockets, records [pos, rot, type]     *)
(*   s2Placed, s2Attempts, s2Count : placed, attempts and count            *)
(*   s2Pc        : "idle", "loop", "done", or "failed" when the call threw *)
(*   s2Evt       : what the last step did                                  *)
(***************************************************************************)
VARIABLES s2Tpl, s2Templates, s2Pieces, s2Occupied, openSockets, s2Placed,
          s2Attempts, s2Count, s2Pc, s2Evt

system2Vars == <<s2Tpl, s2Templates, s2Pieces, s2Occupied, openSockets,
                 s2Placed, s2Attempts, s2Count, s2Pc, s2Evt>>

(***************************************************************************)
(* RoadManager (src/unnamed/part_001):                                     *)
(*   rmTemplates : segmentTemplates, per type [inZ, outX, outZ, turn,      *)
(*                 weight]                                                 *)
(*   rmPools     : segmentPools, per type an ObjectPool [available, inUse, *)
(*                 created]; a pooled segment is <<type, number>>          *)
(*   rmActive    : activeSegments, records [obj, z] (z: mesh.position.z)   *)
(*   rmEndZ      : currentEndPosition.z                                    *)
(*   rmHeading   : the turns of 0.15 rad applied to currentEndDirection    *)
(*   rmPc        : "new", "init" (generateInitialRoad runs) or "ready"     *)
(*   rmUpdates   : calls of update so far                                  *)
(*   rmEvt       : what the last step did                                  *)
(***************************************************************************)
VARIABLES rmTemplates, rmPools, rmActive, rmEndZ, rmHeading, rmPc, rmUpdates,
          rmEvt

roadManagerVars == <<rmTemplates, rmPools, rmActive, rmEndZ, rmHeading, rmPc,
                     rmUpdates, rmEvt>>

(***************************************************************************)
(* BuildingManager:                                                        *)
(*   bmPool      : buildingPool, an ObjectPool [available, inUse, created] *)
(*   bmActive    : activeBuildings, records [obj, x, worldZ, claimed]      *)
(*                 (x: mesh.position.x; claimed: the cell added to         *)
(*                 occupiedCells when the building was spawned)            *)
(*   bmOccupied  : occupiedCells, keys <<column, row>>                     *)
(*   lastSpawnZ  : lastSpawnZ                                              *)
(*   bmRandom    : the pattern of values Math.random() repeats             *)
(*   bmNext      : the place in bmRandom of the next value                 *)
(*   bmPc        : "new", "ready" (init done) or "area"                    *)
(*   bmUpdates   : calls of update so far                                  *)
(*   bmEvt       : what the last step did                                  *)
(***************************************************************************)
VARIABLES bmPool, bmActive, bmOccupied, lastSpawnZ, bmRandom, bmNext, bmPc,
          bmUpdates, bmEvt

buildingVars == <<bmPool, bmActive, bmOccupied, lastSpawnZ, bmRandom, bmNext,
                  bmPc, bmUpdates, bmEvt>>

vars == <<poolVars, viewerVars, lowpolyVars, system3Vars, generateVars,
          asyncVars, system2Vars, roadManagerVars, buildingVars>>

notPool == <<viewerVars, lowpolyVars, system3Vars, generateVars,
              asyncVars, system2Vars, roadManagerVars, buildingVars>>

notViewer == <<poolVars, lowpolyVars, system3Vars, generateVars,
                asyncVars, system2Vars, roadManagerVars, buildingVars>>

notLowpoly == <<poolVars, viewerVars, system3Vars, generateVars,
                 asyncVars, system2Vars, roadManagerVars, buildingVars>>

notSystem3 == <<poolVars, viewerVars, lowpolyVars, generateVars,
                 asyncVars, system2Vars, roadManagerVars, buildingVars>>

notGenerate == <<poolVars, viewerVars, lowpolyVars, system3Vars,
                  asyncVars, system2Vars, roadManagerVars, buildingVars>>

notSystem2 == <<poolVars, viewerVars, lowpolyVars, system3Vars, generateVars,
                asyncVars, roadManagerVars, buildingVars>>

notRoadManager == <<poolVars, viewerVars, lowpolyVars, system3Vars,
                    generateVars, asyncVars, system2Vars, buildingVars>>


notBuilding == <<poolVars, viewerVars, lowpolyVars, system3Vars, generateVars,
                 asyncVars, system2Vars, roadManagerVars>>
(***************************************************************************)
(* ObjectPool (src/src/core/ObjectPool.js).                                *)
(***************************************************************************)
Foreign == 0

PoolObjects == 0..MaxObjects

NoOp == [op |-> "new", arg |-> Foreign, ret |-> Foreign, reused |-> FALSE,
         warned |-> FALSE, threw |-> FALSE, hookRuns |-> 0]

\* this.inUse.has(obj)
InUseHas(obj) == obj \in Range(inUse)

\* this.inUse.add(obj): a Set keeps one entry per object
SetAdd(set, obj) == IF obj \in Range(set) THEN set ELSE Append(set, obj)

\* get stats()
Stats == [available |-> Len(available),
          inUse |-> Len(inUse),
          total |-> Len(available) + Len(inUse)]

\* constructor(createFn, resetFn = null, initialSize = 0)
PoolInit(mayThrow) ==
    /\ \E n \in 0..MaxInitial :
         /\ available = [i \in 1..n |-> i]
         /\ created = n
         /\ pushes = n
         /\ freedAt = [o \in PoolObjects |-> IF o \in 1..n THEN o ELSE 0]
    /\ inUse = <<>>
    /\ hasResetFn \in BOOLEAN
    /\ hookThrows \in mayThrow
    /\ resetCalls = [o \in PoolObjects |-> 0]
    /\ disposeCalls = [o \in PoolObjects |-> 0]
    /\ ops = 0
    /\ last = NoOp

\* acquire(): the object popped from the free list when it is not empty
AcquirePopBuggy(free) == Head(free)
AcquirePop(free) == Last(free)

\* acquire(): the free list after the pop
AcquireRestBuggy(free) == free
AcquireRest(free) == Front(free)

\* acquire()
Acquire ==
    /\ ops < MaxOps
    /\ UNCHANGED notPool
    /\ IF Len(available) > 0
         THEN /\ inUse' = SetAdd(inUse, AcquirePop(available))
              /\ available' = AcquireRest(available)
              /\ created' = created
              /\ last' = [NoOp EXCEPT !.op = "acquire", !.ret = AcquirePop(available),
                                      !.reused = TRUE]
         ELSE /\ created < MaxObjects
              /\ created' = created + 1
              /\ inUse' = SetAdd(inUse, created + 1)
              /\ available' = available
              /\ last' = [NoOp EXCEPT !.op = "acquire", !.ret = created + 1]
    /\ ops' = ops + 1
    /\ UNCHANGED <<hasResetFn, hookThrows, resetCalls, disposeCalls, freedAt,
                   pushes>>

\* release(obj): the guard of the early return
ReleaseGuardBuggy(used, obj) == obj # Foreign
ReleaseGuard(used, obj) == obj \in Range(used)

\* release(obj)
Release(obj) ==
    /\ ops < MaxOps
    /\ UNCHANGED notPool
    /\ ops' = ops + 1
    /\ IF ~ReleaseGuard(inUse, obj)
         THEN \* console.warn(...); return
              /\ last' = [NoOp EXCEPT !.op = "release", !.arg = obj,
                                      !.warned = TRUE]
              /\ UNCHANGED <<available, inUse, resetCalls, freedAt, pushes>>
         ELSE /\ inUse' = Without(inUse, obj)
              /\ IF hasResetFn /\ hookThrows
                   THEN \* resetFn(obj) throws: the push is never reached
                        /\ resetCalls' = [resetCalls EXCEPT ![obj] = @ + 1]
                        /\ last' = [NoOp EXCEPT !.op = "release", !.arg = obj,
                                                !.threw = TRUE, !.hookRuns = 1]
                        /\ UNCHANGED <<available, freedAt, pushes>>
                   ELSE /\ resetCalls' = IF hasResetFn
                                           THEN [resetCalls EXCEPT ![obj] = @ + 1]
                                           ELSE resetCalls
                        /\ available' = Append(available, obj)
                        /\ pushes' = pushes + 1
                        /\ freedAt' = [freedAt EXCEPT ![obj] = pushes + 1]
                        /\ last' = [NoOp EXCEPT !.op = "release", !.arg = obj,
                                      !.hookRuns = IF hasResetFn THEN 1 ELSE 0]
    /\ UNCHANGED <<hasResetFn, hookThrows, created, disposeCalls>>

\* releaseAll(): the objects the forEach visits, in order
ReleaseAllVisitedBuggy(used) == IF Len(used) > 0 THEN Front(used) ELSE used
ReleaseAllVisited(used) == used

\* releaseAll()
ReleaseAll ==
    /\ ops < MaxOps
    /\ UNCHANGED notPool
    /\ ops' = ops + 1
    /\ IF hasResetFn /\ hookThrows /\ Len(inUse) > 0
         THEN \* resetFn throws on the first object visited: forEach is left,
              \* nothing was pushed and inUse.clear() is never reached
              /\ resetCalls' = [resetCalls EXCEPT ![Head(inUse)] = @ + 1]
              /\ last' = [NoOp EXCEPT !.op = "releaseAll", !.threw = TRUE,
                                      !.hookRuns = 1]
              /\ UNCHANGED <<available, inUse, freedAt, pushes>>
         ELSE /\ resetCalls' =
                   [o \in PoolObjects |->
                      IF hasResetFn /\ o \in Range(ReleaseAllVisited(inUse))
                        THEN resetCalls[o] + 1 ELSE resetCalls[o]]
              /\ available' = available \o ReleaseAllVisited(inUse)
              /\ freedAt' =
                   [o \in PoolObjects |->
                      IF o \in Range(ReleaseAllVisited(inUse))
                        THEN pushes + (CHOOSE i \in 1..Len(ReleaseAllVisited(inUse)) :
                                         ReleaseAllVisited(inUse)[i] = o)
                        ELSE freedAt[o]]
              /\ pushes' = pushes + Len(ReleaseAllVisited(inUse))
              /\ inUse' = <<>>
              /\ last' = [NoOp EXCEPT !.op = "releaseAll",
                            !.hookRuns = IF hasResetFn
                                           THEN Len(ReleaseAllVisited(inUse)) ELSE 0]
    /\ UNCHANGED <<hasResetFn, hookThrows, created, disposeCalls>>

\* dispose(): const allObjects = [...this.available, ...this.inUse]
AllObjectsBuggy(free, used) == free
AllObjects(free, used) == free \o used

\* dispose(disposeFn = null): the provided or the default hook runs on
\* every element of allObjects
Dispose ==
    /\ ops < MaxOps
    /\ UNCHANGED notPool
    /\ ops' = ops + 1
    /\ disposeCalls' =
         [o \in PoolObjects |->
            disposeCalls[o]
              + Cardinality({i \in 1..Len(AllObjects(available, inUse)) : AllObjects(available, inUse)[i] = o})]
    /\ available' = <<>>
    /\ inUse' = <<>>
    /\ last' = [NoOp EXCEPT !.op = "dispose", !.hookRuns = Len(AllObjects(available, inUse))]
    /\ UNCHANGED <<hasResetFn, hookThrows, created, resetCalls, freedAt,
                   pushes>>

ReleaseAny == \E obj \in PoolObjects : Release(obj)

PoolNext ==
    \/ Acquire
    \/ ReleaseAny
    \/ ReleaseAll
    \/ Dispose

(***************************************************************************)
(* AssetViewer (src/src/main.js).                                          *)
(***************************************************************************)
GRID_CELL_SIZE == 2

SpawnAheadDistance == 100

DespawnBehindDistance == 10

MinSegments == 3

\* car.position.lerp(target, 0.15), in hundredths
LerpPercent == 15

\* seam tolerance of trySpawnRoad: Math.min(2, roadPieces.length)
RecentCount == 2

ViewerScale == 1

\* generateRoad(targetCount = 20)
DefaultTargetCount == 20

\* createFallbackPath: end = start + (0, 0, 10)
FallbackPathLength == 10

NoEvt == [op |-> "init", spawned |-> 0, removed |-> 0, rejected |-> 0,
          committed |-> 0, near |-> FALSE]

\* findSocketOut(piece)
FindSocketOut(piece) == tpl[piece.name].hasSocket

\* getSocketTransform(piece): the socket's world transform, or the default
\* (origin, identity) when the piece has no socket
GetSocketTransform(piece) ==
    IF FindSocketOut(piece)
      THEN [position |-> SocketWorldPos(tpl[piece.name], piece, ViewerScale),
            quaternion |-> SocketWorldRot(tpl[piece.name], piece)]
      ELSE [position |-> Origin, quaternion |-> 0]

\* sampleRoadCells(piece)
SampleRoadCells(piece) ==
    IF ~FindSocketOut(piece)
      THEN {}
      ELSE LineCells(piece.pos,
                     SocketWorldPos(tpl[piece.name], piece, ViewerScale),
                     GRID_CELL_SIZE)

\* trySpawnRoad: the cells of the last two pieces of roadPieces
RecentCells(pieces) ==
    UNION {SampleRoadCells(pieces[i]) :
             i \in (Len(pieces) - Min(RecentCount, Len(pieces)) + 1)..Len(pieces)}

\* checkCollision(cells, recentCells)
CheckCollisionBuggy(cells, recentCells, occupied) ==
    \E c \in cells : c \in occupied
CheckCollision(cells, recentCells, occupied) ==
    \E c \in cells : c \in occupied /\ c \notin recentCells

\* trySpawnRoad: where the clone is put
PlaceAfter(pieces) ==
    IF Len(pieces) = 0
      THEN [position |-> Origin, quaternion |-> 0]
      ELSE GetSocketTransform(Last(pieces))

\* trySpawnRoad(name, mirror, previousPiece) on the road pieces and the
\* occupied cells given: the instance it returns, or NoPiece
NoPiece == [id |-> 0, name |-> "road_long", pos |-> Origin, rot |-> 0,
            mirror |-> FALSE]

TrySpawnRoad(name, mirror, pieces, occupied, id) ==
    IF name \notin loadedAssets
      THEN NoPiece
      ELSE LET at == PlaceAfter(pieces)
               instance == [id |-> id, name |-> name, pos |-> at.position,
                            rot |-> at.quaternion, mirror |-> mirror]
           IN  IF CheckCollision(SampleRoadCells(instance),
                                 RecentCells(pieces), occupied)
                 THEN NoPiece
                 ELSE instance

\* buildCandidates()
BuildCandidates ==
    <<[name |-> "road_long", type |-> "straight", mirror |-> FALSE],
      [name |-> "road_short", type |-> "straight", mirror |-> FALSE]>>

\* shuffle(array): every order of the array
Shuffles(array) ==
    {[i \in 1..Len(array) |-> array[f[i]]] :
       f \in {g \in [1..Len(array) -> 1..Len(array)] :
                \A i, j \in 1..Len(array) : i # j => g[i] # g[j]}}

\* extractCarPath(piece): from the origin to the socket, or the fallback
\* path when there is no socket (main.js places straights only, so the arc
\* of a curved piece never arises)
ExtractCarPath(piece) ==
    [of |-> piece.id,
     from |-> piece.pos,
     to |-> IF FindSocketOut(piece)
              THEN SocketWorldPos(tpl[piece.name], piece, ViewerScale)
              ELSE VAdd(piece.pos, <<0, FallbackPathLength>>)]

\* buildSegmentPaths()
BuildSegmentPaths(pieces) == [i \in 1..Len(pieces) |-> ExtractCarPath(pieces[i])]

\* curve.getLength() of a path
PathLength(path) == CeilSqrt(Dist2(path.from, path.to))

\* curve.getPointAt(t) with t = d / length
PathPointAt(path, d) ==
    LET len == Max(1, PathLength(path))
    IN  <<path.from[1] + RoundDiv((path.to[1] - path.from[1]) * d, len),
          path.from[2] + RoundDiv((path.to[2] - path.from[2]) * d, len)>>

\* car.position.lerp(target, 0.15)
CarLerp(pos, target) ==
    <<pos[1] + RoundDiv((target[1] - pos[1]) * LerpPercent, 100),
      pos[2] + RoundDiv((target[2] - pos[2]) * LerpPercent, 100)>>

\* updateCarPosition() on the paths, index and progress given
UpdateCarPosition(c, paths, idx, d) ==
    IF ~c.present \/ Len(paths) = 0 \/ idx + 1 > Len(paths)
      THEN c
      ELSE [c EXCEPT !.pos = CarLerp(c.pos, PathPointAt(paths[idx + 1], d))]

ViewerInitWith(sets) ==
    /\ tpl \in sets
    /\ loadedAssets = {}
    /\ assetInstances = [n \in RoadNames |-> {}]
    /\ scene = {}
    /\ roadPieces = <<>>
    /\ occupiedCells = {}
    /\ lastCurveDir = 0
    /\ sameDirCount = 0
    /\ straightsSinceCurve = 99
    /\ activeSegments = <<>>
    /\ segmentPaths = <<>>
    /\ currentSegmentIndex = 0
    /\ currentPathT = 0
    /\ car = [present |-> FALSE, pos |-> Origin]
    /\ isCarMoving = FALSE
    /\ infiniteRoadEnabled = TRUE
    /\ nextId = 0
    /\ gen = [on |-> FALSE, left |-> 0]
    /\ calls = 0
    /\ evt = NoEvt

\* updateDirectionTracking(type, dir) on the tracking state given
UpdateDirectionTracking(d, type, dir) ==
    IF type = "straight"
      THEN [d EXCEPT !.straightsSinceCurve = @ + 1]
      ELSE IF type = "curve"
        THEN [lastCurveDir |-> dir,
              sameDirCount |-> IF dir = d.lastCurveDir
                                 THEN d.sameDirCount + 1 ELSE 1,
              straightsSinceCurve |-> 0]
        ELSE d

Ids(pieces) == {pieces[i].id : i \in 1..Len(pieces)}

\* startCar() on the paths given: the car exists afterwards, stands at the
\* start of the first path and moves
StartCarEffect(paths) ==
    /\ currentSegmentIndex' = 0
    /\ currentPathT' = 0
    /\ isCarMoving' = TRUE
    /\ car' = UpdateCarPosition([car EXCEPT !.present = TRUE], paths, 0, 0)

\* the end of generateRoad: buildSegmentPaths(), startCar()
GenerateFinish(pieces) ==
    /\ segmentPaths' = BuildSegmentPaths(pieces)
    /\ StartCarEffect(BuildSegmentPaths(pieces))
    /\ gen' = [on |-> FALSE, left |-> 0]

\* generateRoad(targetCount) from clearRoad() up to the first iteration of
\* its loop
GenerateRoadStart(targetCount) ==
    /\ scene' = scene \ (Ids(roadPieces)
                           \cup {activeSegments[i].road.id :
                                   i \in 1..Len(activeSegments)})
    /\ roadPieces' = <<>>
    /\ occupiedCells' = {}
    /\ lastCurveDir' = 0
    /\ sameDirCount' = 0
    /\ straightsSinceCurve' = 99
    /\ activeSegments' = <<>>
    /\ evt' = [NoEvt EXCEPT !.op = "generateRoad"]
    /\ IF targetCount = 0
         THEN GenerateFinish(<<>>)
         ELSE /\ gen' = [on |-> TRUE, left |-> targetCount]
              /\ segmentPaths' = <<>>
              /\ currentSegmentIndex' = 0
              /\ currentPathT' = 0
              /\ UNCHANGED <<car, isCarMoving>>
    /\ UNCHANGED <<tpl, assetInstances, infiniteRoadEnabled, nextId>>

\* generateRoad(targetCount), up to the first iteration of its loop (a call
\* that would clone more than cap instances in all is not explored):
\* the templates are loaded (the awaited loads succeed and no other handler
\* runs while they are pending), clearRoad() has run
GenerateRoadCapped(targetCount, cap) ==
    /\ ~gen.on
    /\ calls < MaxCalls
    /\ calls' = calls + 1
    /\ nextId + targetCount <= cap
    /\ loadedAssets' = loadedAssets \cup StraightNames
    /\ GenerateRoadStart(targetCount)
    /\ UNCHANGED notViewer

GenerateRoad(targetCount) == GenerateRoadCapped(targetCount, MaxPieces)

\* one iteration of generateRoad's loop: the shuffled candidates are tried
\* in order and the first that trySpawnRoad accepts is committed; when none
\* is accepted, or the count is reached, the loop is left and the road is
\* finished.  Of the shuffles, those are explored that leave the rarer kind
\* of piece at most `minority` times in the road.
MinorityCount(pieces) ==
    Min(Cardinality({i \in 1..Len(pieces) : pieces[i].name = "road_long"}),
        Cardinality({i \in 1..Len(pieces) : pieces[i].name = "road_short"}))

GenerateStepCapped(minority) ==
    /\ gen.on
    /\ UNCHANGED calls
    /\ \E candidates \in Shuffles(BuildCandidates) :
       \E tried \in {[i \in 1..Len(candidates) |->
                        TrySpawnRoad(candidates[i].name, candidates[i].mirror,
                                     roadPieces, occupiedCells, nextId + 1)]} :
         LET ok == {i \in 1..Len(candidates) : tried[i].id # 0}
         IN  IF ok # {}
               THEN LET k == CHOOSE i \in ok : \A j \in ok : i <= j
                        instance == tried[k]
                        d == UpdateDirectionTracking(
                               [lastCurveDir |-> lastCurveDir,
                                sameDirCount |-> sameDirCount,
                                straightsSinceCurve |-> straightsSinceCurve],
                               candidates[k].type, 0)
                    IN  /\ MinorityCount(Append(roadPieces, instance))
                             <= minority
                        /\ scene' = scene \cup {instance.id}
                        /\ assetInstances' =
                             [assetInstances EXCEPT ![instance.name] =
                                @ \cup {instance.id}]
                        /\ roadPieces' = Append(roadPieces, instance)
                        /\ occupiedCells' =
                             occupiedCells \cup SampleRoadCells(instance)
                        /\ nextId' = nextId + 1
                        /\ lastCurveDir' = d.lastCurveDir
                        /\ sameDirCount' = d.sameDirCount
                        /\ straightsSinceCurve' = d.straightsSinceCurve
                        /\ evt' = [NoEvt EXCEPT !.op = "generateStep",
                                                !.committed = 1,
                                                !.rejected = k - 1]
                        /\ IF gen.left = 1
                             THEN GenerateFinish(Append(roadPieces, instance))
                             ELSE /\ gen' = [gen EXCEPT !.left = @ - 1]
                                  /\ UNCHANGED <<segmentPaths, car,
                                                 currentSegmentIndex,
                                                 currentPathT, isCarMoving>>
               ELSE /\ evt' = [NoEvt EXCEPT !.op = "generateStep",
                                            !.rejected = Len(candidates)]
                    /\ GenerateFinish(roadPieces)
                    /\ UNCHANGED <<scene, assetInstances, roadPieces,
                                   occupiedCells, nextId, lastCurveDir,
                                   sameDirCount, straightsSinceCurve>>
    /\ UNCHANGED <<tpl, loadedAssets, activeSegments, infiniteRoadEnabled>>
    /\ UNCHANGED notViewer

GenerateStep == GenerateStepCapped(MaxPieces)

\* clearRoad()
ClearRoad ==
    /\ ~gen.on
    /\ calls < MaxCalls
    /\ calls' = calls + 1
    /\ scene' = scene \ (Ids(roadPieces)
                           \cup {activeSegments[i].road.id :
                                   i \in 1..Len(activeSegments)})
    /\ roadPieces' = <<>>
    /\ segmentPaths' = <<>>
    /\ occupiedCells' = {}
    /\ lastCurveDir' = 0
    /\ sameDirCount' = 0
    /\ straightsSinceCurve' = 99
    /\ currentSegmentIndex' = 0
    /\ currentPathT' = 0
    /\ activeSegments' = <<>>
    /\ evt' = [NoEvt EXCEPT !.op = "clearRoad"]
    /\ UNCHANGED <<tpl, loadedAssets, assetInstances, car, isCarMoving,
                   infiniteRoadEnabled, nextId, gen>>
    /\ UNCHANGED notViewer

SpawnNextSegmentBuggy(w, name, loaded) ==
    IF name \notin loaded
      THEN w
      ELSE LET at == IF Len(w.active) > 0
                       THEN GetSocketTransform(Last(w.active).road)
                       ELSE [position |-> Origin, quaternion |-> 0]
               roadInstance == [id |-> w.nextId + 1, name |-> name,
                                pos |-> at.position, rot |-> at.quaternion,
                                mirror |-> FALSE]
               segment == [road |-> roadInstance,
                           path |-> ExtractCarPath(roadInstance)]
           IN  [active |-> Append(w.active, segment),
                pieces |-> Append(w.pieces, roadInstance),
                paths |-> w.paths,
                scene |-> w.scene \cup {roadInstance.id},
                nextId |-> w.nextId + 1,
                spawned |-> w.spawned + 1]

\* spawnNextSegment() with randomName = name, on the arrays given
\* (w = [active, pieces, paths, scene, nextId, spawned])
SpawnNextSegment(w, name, loaded) ==
    IF name \notin loaded
      THEN w
      ELSE LET at == IF Len(w.active) > 0
                       THEN GetSocketTransform(Last(w.active).road)
                       ELSE [position |-> Origin, quaternion |-> 0]
               roadInstance == [id |-> w.nextId + 1, name |-> name,
                                pos |-> at.position, rot |-> at.quaternion,
                                mirror |-> FALSE]
               segment == [road |-> roadInstance,
                           path |-> ExtractCarPath(roadInstance)]
           IN  [active |-> Append(w.active, segment),
                pieces |-> Append(w.pieces, roadInstance),
                paths |-> Append(w.paths, segment.path),
                scene |-> w.scene \cup {roadInstance.id},
                nextId |-> w.nextId + 1,
                spawned |-> w.spawned + 1]

\* the for loop of initInfiniteRoad: spawnNextSegment() for names[1..n]
RECURSIVE SpawnInitial(_, _, _)
SpawnInitial(w, names, loaded) ==
    IF names = <<>>
      THEN w
      ELSE SpawnInitial(SpawnNextSegment(w, Head(names), loaded),
                        Tail(names), loaded)

\* initInfiniteRoad(initialCount); names are the random picks of the
\* initialCount calls of spawnNextSegment.  The awaited template loads
\* succeed and no other handler runs while they are pending.
InitInfiniteRoad(initialCount) ==
    /\ ~gen.on
    /\ calls < MaxCalls
    /\ calls' = calls + 1
    /\ nextId + initialCount <= MaxPieces
    /\ \E names \in [1..initialCount -> StraightNames] :
         LET cleared == [active |-> <<>>, pieces |-> <<>>, paths |-> <<>>,
                         scene |-> scene \ (Ids(roadPieces)
                                      \cup {activeSegments[i].road.id :
                                              i \in 1..Len(activeSegments)}),
                         nextId |-> nextId, spawned |-> 0]
             w == SpawnInitial(cleared, names, loadedAssets \cup StraightNames)
         IN  /\ activeSegments' = w.active
             /\ roadPieces' = w.pieces
             /\ segmentPaths' = BuildSegmentPaths(w.pieces)
             /\ scene' = w.scene
             /\ nextId' = w.nextId
             /\ evt' = [NoEvt EXCEPT !.op = "initInfiniteRoad",
                                     !.spawned = w.spawned]
    /\ loadedAssets' = loadedAssets \cup StraightNames
    /\ occupiedCells' = {}
    /\ lastCurveDir' = 0
    /\ sameDirCount' = 0
    /\ straightsSinceCurve' = 99
    /\ currentSegmentIndex' = 0
    /\ currentPathT' = 0
    /\ UNCHANGED <<tpl, assetInstances, car, isCarMoving,
                   infiniteRoadEnabled, gen>>
    /\ UNCHANGED notViewer

\* startCar()
StartCar ==
    /\ ~gen.on
    /\ calls < MaxCalls
    /\ calls' = calls + 1
    /\ segmentPaths' = IF Len(segmentPaths) = 0
                         THEN BuildSegmentPaths(roadPieces)
                         ELSE segmentPaths
    /\ StartCarEffect(segmentPaths')
    /\ evt' = [NoEvt EXCEPT !.op = "startCar"]
    /\ UNCHANGED <<tpl, loadedAssets, assetInstances, scene, roadPieces,
                   occupiedCells, lastCurveDir, sameDirCount,
                   straightsSinceCurve, activeSegments, infiniteRoadEnabled,
                   nextId, gen>>
    /\ UNCHANGED notViewer

\* stopCar()
StopCar ==
    /\ ~gen.on
    /\ calls < MaxCalls
    /\ calls' = calls + 1
    /\ isCarMoving' = FALSE
    /\ evt' = [NoEvt EXCEPT !.op = "stopCar"]
    /\ UNCHANGED <<tpl, loadedAssets, assetInstances, scene, roadPieces,
                   occupiedCells, lastCurveDir, sameDirCount,
                   straightsSinceCurve, activeSegments, segmentPaths,
                   currentSegmentIndex, currentPathT, car,
                   infiniteRoadEnabled, nextId, gen>>
    /\ UNCHANGED notViewer

\* window.toggleInfiniteRoad()
ToggleInfiniteRoad ==
    /\ ~gen.on
    /\ calls < MaxCalls
    /\ calls' = calls + 1
    /\ infiniteRoadEnabled' = ~infiniteRoadEnabled
    /\ evt' = [NoEvt EXCEPT !.op = "toggleInfiniteRoad"]
    /\ UNCHANGED <<tpl, loadedAssets, assetInstances, scene, roadPieces,
                   occupiedCells, lastCurveDir, sameDirCount,
                   straightsSinceCurve, activeSegments, segmentPaths,
                   currentSegmentIndex, currentPathT, car, isCarMoving,
                   nextId, gen>>
    /\ UNCHANGED notViewer

\* updateCar(deltaTime): the car advances by step world units on its path
\* (u = [idx, t, car])
UpdateCar(step) ==
    LET u == [idx |-> currentSegmentIndex, t |-> currentPathT, car |-> car]
    IN  IF ~isCarMoving \/ Len(segmentPaths) = 0
             \/ currentSegmentIndex + 1 > Len(segmentPaths)
          THEN u
          ELSE LET len == PathLength(segmentPaths[currentSegmentIndex + 1])
                   over == currentPathT + step >= len
                   t2 == IF over THEN 0 ELSE currentPathT + step
                   i1 == IF over THEN currentSegmentIndex + 1
                                 ELSE currentSegmentIndex
                   i2 == IF i1 >= Len(segmentPaths) THEN 0 ELSE i1
               IN  [idx |-> i2, t |-> t2,
                    car |-> UpdateCarPosition(car, segmentPaths, i2, t2)]

NearRoadEndBuggy(c, active) ==
    /\ c.present
    /\ Len(active) > 0
    /\ Dist2(c.pos, GetSocketTransform(Last(active).road).position)
         <= SpawnAheadDistance * SpawnAheadDistance

\* getDistanceToRoadEnd() < spawnAheadDistance, for the car given
NearRoadEnd(c, active) ==
    /\ c.present
    /\ Len(active) > 0
    /\ Dist2(c.pos, GetSocketTransform(Last(active).road).position)
         < SpawnAheadDistance * SpawnAheadDistance

RemoveOldestSegmentBuggy(w) ==
    IF Len(w.active) = 0
      THEN w
      ELSE LET segment == Head(w.active)
               at == {i \in 1..Len(w.pieces) : w.pieces[i].id = segment.road.id}
               roadIndex == IF at = {} THEN 0
                            ELSE CHOOSE i \in at : \A j \in at : i <= j
           IN  [active |-> Tail(w.active),
                pieces |-> IF roadIndex = 0 THEN w.pieces
                           ELSE RemoveAt(w.pieces, roadIndex),
                paths |-> IF roadIndex = 0 THEN w.paths
                          ELSE RemoveAt(w.paths, roadIndex),
                scene |-> w.scene \ {segment.road.id},
                idx |-> w.idx,
                removed |-> w.removed + 1]

\* removeOldestSegment() (w = [active, pieces, paths, scene, idx, removed])
RemoveOldestSegment(w) ==
    IF Len(w.active) = 0
      THEN w
      ELSE LET segment == Head(w.active)
               at == {i \in 1..Len(w.pieces) : w.pieces[i].id = segment.road.id}
               roadIndex == IF at = {} THEN 0
                            ELSE CHOOSE i \in at : \A j \in at : i <= j
           IN  [active |-> Tail(w.active),
                pieces |-> IF roadIndex = 0 THEN w.pieces
                           ELSE RemoveAt(w.pieces, roadIndex),
                paths |-> IF roadIndex = 0 THEN w.paths
                          ELSE RemoveAt(w.paths, roadIndex),
                scene |-> w.scene \ {segment.road.id},
                idx |-> IF roadIndex = 0 THEN w.idx ELSE Max(0, w.idx - 1),
                removed |-> w.removed + 1]

InfiniteRoadCleanupBuggy(w, c) ==
    IF ~infiniteRoadEnabled \/ ~c.present
      THEN w
      ELSE IF Len(w.active) < MinSegments
        THEN w
        ELSE IF /\ Dist2(c.pos, Head(w.active).road.pos)
                     > DespawnBehindDistance * DespawnBehindDistance
                /\ w.idx > 0
               THEN RemoveOldestSegment(w)
               ELSE w

\* updateInfiniteRoadCleanup() for the car given
InfiniteRoadCleanup(w, c) ==
    IF ~infiniteRoadEnabled \/ ~c.present
      THEN w
      ELSE IF Len(w.active) <= MinSegments
        THEN w
        ELSE IF /\ Dist2(c.pos, Head(w.active).road.pos)
                     > DespawnBehindDistance * DespawnBehindDistance
                /\ w.idx > 0
               THEN RemoveOldestSegment(w)
               ELSE w

\* animate(): updateCar, updateInfiniteRoadSpawning, then
\* updateInfiniteRoadCleanup; step is the distance the frame's deltaTime
\* gives, name the random pick of spawnNextSegment; a frame that would
\* clone instance number cap + 1 is not explored
TickCapped(step, name, cap) ==
    /\ ~gen.on
    /\ UNCHANGED calls
    /\ \E u \in {UpdateCar(step)} :
       \E near \in {infiniteRoadEnabled /\ NearRoadEnd(u.car, activeSegments)} :
       \E w1 \in {IF near
                    THEN SpawnNextSegment(
                           [active |-> activeSegments, pieces |-> roadPieces,
                            paths |-> segmentPaths, scene |-> scene,
                            nextId |-> nextId, spawned |-> 0],
                           name, loadedAssets)
                    ELSE [active |-> activeSegments, pieces |-> roadPieces,
                          paths |-> segmentPaths, scene |-> scene,
                          nextId |-> nextId, spawned |-> 0]} :
       \E w2 \in {InfiniteRoadCleanup(
                    [active |-> w1.active, pieces |-> w1.pieces,
                     paths |-> w1.paths, scene |-> w1.scene, idx |-> u.idx,
                     removed |-> 0], u.car)} :
         /\ near => nextId < cap
         /\ car' = u.car
         /\ currentPathT' = u.t
         /\ currentSegmentIndex' = w2.idx
         /\ activeSegments' = w2.active
         /\ roadPieces' = w2.pieces
         /\ segmentPaths' = w2.paths
         /\ scene' = w2.scene
         /\ nextId' = w1.nextId
         /\ evt' = [NoEvt EXCEPT !.op = "tick", !.spawned = w1.spawned,
                                 !.removed = w2.removed, !.near = near]
    /\ UNCHANGED <<tpl, loadedAssets, assetInstances, occupiedCells,
                   lastCurveDir, sameDirCount, straightsSinceCurve,
                   isCarMoving, infiniteRoadEnabled, gen>>
    /\ UNCHANGED notViewer

Tick(step, name) == TickCapped(step, name, MaxPieces)

GenerateRoadAny == \E targetCount \in 0..MaxCount : GenerateRoad(targetCount)

InitInfiniteRoadAny ==
    \E initialCount \in 0..MaxInitialSegments : InitInfiniteRoad(initialCount)

TickAny == \E step \in TickSteps, name \in StraightNames : Tick(step, name)

\* generateRoad() with its default count, once, on a fresh viewer
ScenarioGenerate == GenerateRoadCapped(DefaultTargetCount, DefaultTargetCount)

ScenarioStep == GenerateStepCapped(MaxMinority)

ScenarioNext ==
    \/ ScenarioGenerate
    \/ ScenarioStep

\* the frames of a long drive on the infinite road
StreamTick ==
    \E step \in TickSteps, name \in StraightNames :
      TickCapped(step, name, MaxStreamPieces)

\* the infinite road alone: it is set up, the car is started, frames follow
\* init() of main.js sets the infinite road up before any other command
StreamInit ==
    /\ calls = 0
    /\ InitInfiniteRoadAny

StreamNext ==
    \/ StreamInit
    \/ StartCar
    \/ StreamTick

\* the frames of a slow drive
CrawlTick ==
    \E name \in StraightNames : TickCapped(SlowTickStep, name, MaxCrawlPieces)

CrawlNext ==
    \/ StreamInit
    \/ StartCar
    \/ CrawlTick

ViewerNext ==
    \/ GenerateRoadAny
    \/ GenerateStep
    \/ ClearRoad
    \/ InitInfiniteRoadAny
    \/ StartCar
    \/ StopCar
    \/ ToggleInfiniteRoad
    \/ TickAny

(***************************************************************************)
(* initInfiniteRoad and generateRoad of src/src/main.js as the async       *)
(* functions they are: a call runs up to its first await of loadRoad, is   *)
(* suspended there, and goes on when the load resolves; other calls and    *)
(* frames of animate() run in between.  The loads succeed.                 *)
(***************************************************************************)
notViewerAsync ==
    <<poolVars, lowpolyVars, system3Vars, generateVars, system2Vars,
      roadManagerVars, buildingVars>>

\* for (const name of roadNames) if (!loadedAssets.find(...)): the first
\* name the loop has to await a load for, "none" when there is none
FirstMissing(loaded) ==
    IF "road_long" \notin loaded THEN "road_long"
    ELSE IF "road_short" \notin loaded THEN "road_short"
    ELSE "none"

\* the road arrays as they are
CurrentRoad ==
    [active |-> activeSegments, pieces |-> roadPieces, paths |-> segmentPaths,
     scene |-> scene, nextId |-> nextId, spawned |-> 0]

\* the road arrays as clearRoad() leaves them
ClearedRoad ==
    [active |-> <<>>, pieces |-> <<>>, paths |-> <<>>,
     scene |-> scene \ (Ids(roadPieces)
                          \cup {activeSegments[i].road.id :
                                  i \in 1..Len(activeSegments)}),
     nextId |-> nextId, spawned |-> 0]

\* the end of initInfiniteRoad(count), on the road arrays w: the loop of
\* spawnNextSegment() and buildSegmentPaths()
SpawnLoop(w, count, loaded) ==
    /\ w.nextId + count <= MaxPieces
    /\ \E names \in [1..count -> StraightNames] :
       \E r \in {SpawnInitial(w, names, loaded)} :
         /\ activeSegments' = r.active
         /\ roadPieces' = r.pieces
         /\ segmentPaths' = BuildSegmentPaths(r.pieces)
         /\ scene' = r.scene
         /\ nextId' = r.nextId
         /\ evt' = [NoEvt EXCEPT !.op = "initInfiniteRoad",
                                 !.spawned = r.spawned]
    /\ completed' = Append(completed, [op |-> "initInfiniteRoad",
                                       count |-> count])

\* a call of initInfiniteRoad(initialCount), up to its first await or, when
\* both templates are loaded, to its end
CallInitInfiniteRoad(initialCount) ==
    /\ ~gen.on
    /\ Len(pending) + Len(completed) < MaxInvocations
    /\ occupiedCells' = {}
    /\ lastCurveDir' = 0
    /\ sameDirCount' = 0
    /\ straightsSinceCurve' = 99
    /\ currentSegmentIndex' = 0
    /\ currentPathT' = 0
    /\ IF FirstMissing(loadedAssets) = "none"
         THEN /\ SpawnLoop(ClearedRoad, initialCount, loadedAssets)
              /\ UNCHANGED pending
         ELSE /\ activeSegments' = <<>>
              /\ roadPieces' = <<>>
              /\ segmentPaths' = <<>>
              /\ scene' = ClearedRoad.scene
              /\ evt' = [NoEvt EXCEPT !.op = "clearRoad"]
              /\ pending' = Append(pending,
                                   [op |-> "initInfiniteRoad",
                                    count |-> initialCount,
                                    awaiting |-> FirstMissing(loadedAssets)])
              /\ UNCHANGED <<nextId, completed>>
    /\ UNCHANGED <<tpl, loadedAssets, assetInstances, car, isCarMoving,
                   infiniteRoadEnabled, gen, calls>>
    /\ UNCHANGED notViewerAsync

\* a call of generateRoad(targetCount), up to its first await or, when both
\* templates are loaded, to the first iteration of its loop
CallGenerateRoad(targetCount) ==
    /\ ~gen.on
    /\ Len(pending) + Len(completed) < MaxInvocations
    /\ nextId + targetCount <= MaxPieces
    /\ IF FirstMissing(loadedAssets) = "none"
         THEN /\ GenerateRoadStart(targetCount)
              /\ UNCHANGED pending
         ELSE /\ pending' = Append(pending,
                                   [op |-> "generateRoad",
                                    count |-> targetCount,
                                    awaiting |-> FirstMissing(loadedAssets)])
              /\ UNCHANGED <<tpl, assetInstances, scene, roadPieces,
                             occupiedCells, lastCurveDir, sameDirCount,
                             straightsSinceCurve, activeSegments,
                             segmentPaths, currentSegmentIndex, currentPathT,
                             car, isCarMoving, infiniteRoadEnabled, nextId,
                             gen, evt>>
    /\ UNCHANGED <<loadedAssets, calls, completed>>
    /\ UNCHANGED notViewerAsync

\* the loadRoad that suspended call k awaits resolves: the template is
\* pushed onto loadedAssets and the call goes on, to its next await or to
\* its end (initInfiniteRoad) or the first iteration of its loop
\* (generateRoad)
LoadResolves(k) ==
    /\ ~gen.on
    /\ k \in 1..Len(pending)
    /\ loadedAssets' = loadedAssets \cup {pending[k].awaiting}
    /\ IF FirstMissing(loadedAssets') # "none"
         THEN /\ pending' = [pending EXCEPT
                               ![k].awaiting = FirstMissing(loadedAssets')]
              /\ UNCHANGED <<tpl, assetInstances, scene, roadPieces,
                             occupiedCells, lastCurveDir, sameDirCount,
                             straightsSinceCurve, activeSegments,
                             segmentPaths, currentSegmentIndex, currentPathT,
                             car, isCarMoving, infiniteRoadEnabled, nextId,
                             gen, evt, completed>>
         ELSE /\ pending' = RemoveAt(pending, k)
              /\ IF pending[k].op = "initInfiniteRoad"
                   THEN /\ SpawnLoop(CurrentRoad, pending[k].count,
                                     loadedAssets')
                        /\ UNCHANGED <<tpl, assetInstances, occupiedCells,
                                       lastCurveDir, sameDirCount,
                                       straightsSinceCurve,
                                       currentSegmentIndex, currentPathT,
                                       car, isCarMoving, infiniteRoadEnabled,
                                       gen>>
                   ELSE /\ GenerateRoadStart(pending[k].count)
                        /\ UNCHANGED completed
    /\ UNCHANGED calls
    /\ UNCHANGED notViewerAsync

CallInitInfiniteRoadAny ==
    \E initialCount \in 0..MaxAsyncCount : CallInitInfiniteRoad(initialCount)

CallGenerateRoadAny ==
    \E targetCount \in 0..MaxAsyncCount : CallGenerateRoad(targetCount)

LoadResolvesAny == \E k \in 1..MaxInvocations : LoadResolves(k)

AsyncNext ==
    \/ CallInitInfiniteRoadAny
    \/ CallGenerateRoadAny
    \/ LoadResolvesAny
    \/ GenerateStep
    \/ StartCar
    \/ TickAny

(***************************************************************************)
(* LowPolyViewer.spawnProceduralRoadSystem1 (src/src/lowpoly.js).          *)
(***************************************************************************)
LP_GRID_CELL_SIZE == 2

MAX_SAME_DIR_CURVES == 2

MIN_STRAIGHTS_AFTER_CURVE == 1

\* piece.scale.set(2, 2, 2)
LowpolyScale == 2

\* recentCellSets keeps the cell sets of the last three pieces
RecentSets == 3

\* the first three iterations offer straights only
StraightOnlySteps == 3

\* piece.position.set(0, 0, 5) for the first piece
FirstPiecePosition == <<0, 5>>

\* ROAD_TYPES
ROAD_TYPES ==
    [road_long        |-> "straight",
     road_short       |-> "straight",
     road_curve_wide  |-> "curve",
     road_curve_tight |-> "curve"]

\* the key sets `templates` can end up with: each load may fail
LoadedSets == {RoadNames, StraightNames, {"road_short", "road_curve_tight"}, {}}

InitialDir == [lastCurveDir |-> 0, sameDirCount |-> 0,
               straightsSinceCurve |-> 99]

\* findSocketOut(piece) of lowpoly.js
LpFindSocketOut(piece) == lpTpl[piece.name].hasSocket

\* the world position of the piece's socket_out
LpSocketPos(piece) == SocketWorldPos(lpTpl[piece.name], piece, LowpolyScale)

\* sampleCenterline(piece), as the set of the cell keys of its samples
SampleCenterline(piece) ==
    IF ~LpFindSocketOut(piece)
      THEN {CellAt(piece.pos, piece.pos, 0, 1, LP_GRID_CELL_SIZE)}
      ELSE LineCells(piece.pos, LpSocketPos(piece), LP_GRID_CELL_SIZE)

LpCheckCollisionBuggy(cells, recentCells, occupied) ==
    \E c \in cells : c \in occupied

\* checkCollision(samples, recentCells) of the spawn loop
LpCheckCollision(cells, recentCells, occupied) ==
    \E c \in cells : c \in occupied /\ c \notin recentCells

\* the candidates of iteration i, before the filter
LpCandidates(i) ==
    IF i < StraightOnlySteps
      THEN {[key |-> k, mirror |-> FALSE] :
              k \in {n \in RoadNames : ROAD_TYPES[n] = "straight"}}
      ELSE {[key |-> k, mirror |-> FALSE] : k \in RoadNames}
             \cup {[key |-> k, mirror |-> TRUE] :
                     k \in {n \in RoadNames : ROAD_TYPES[n] = "curve"}}

CurveDir(mirror) == IF mirror THEN -1 ELSE 1

\* filterByRules(candidates) under the direction tracking d
FilterByRulesBuggy(candidates, d) ==
    {c \in candidates :
       \/ ROAD_TYPES[c.key] # "curve"
       \/ /\ ~(d.straightsSinceCurve < MIN_STRAIGHTS_AFTER_CURVE)
          /\ ~(CurveDir(c.mirror) = d.lastCurveDir
                 /\ d.sameDirCount > MAX_SAME_DIR_CURVES)}
FilterByRules(candidates, d) ==
    {c \in candidates :
       \/ ROAD_TYPES[c.key] # "curve"
       \/ /\ ~(d.straightsSinceCurve < MIN_STRAIGHTS_AFTER_CURVE)
          /\ ~(CurveDir(c.mirror) = d.lastCurveDir
                 /\ d.sameDirCount >= MAX_SAME_DIR_CURVES)}

\* where the clone of the candidate is put: at (0, 0, 5) when it is the
\* first piece, at the previous piece's socket when that has one, and
\* where the clone of the template lies (the origin) otherwise
LpPlace(pieces) ==
    IF Len(pieces) = 0
      THEN [position |-> FirstPiecePosition, quaternion |-> 0]
      ELSE IF LpFindSocketOut(Last(pieces))
        THEN [position |-> LpSocketPos(Last(pieces)),
              quaternion |-> SocketWorldRot(lpTpl[Last(pieces).name],
                                            Last(pieces))]
        ELSE [position |-> Origin, quaternion |-> 0]

LpPiece(c, pieces) ==
    [id |-> Len(pieces) + 1, name |-> c.key, pos |-> LpPlace(pieces).position,
     rot |-> LpPlace(pieces).quaternion, mirror |-> c.mirror]

\* the direction tracking after the candidate c is committed
LpTrack(d, c) ==
    IF ROAD_TYPES[c.key] = "curve"
      THEN [lastCurveDir |-> CurveDir(c.mirror),
            sameDirCount |-> IF CurveDir(c.mirror) = d.lastCurveDir
                               THEN d.sameDirCount + 1 ELSE 1,
            straightsSinceCurve |-> 0]
      ELSE [d EXCEPT !.straightsSinceCurve = @ + 1]

\* the candidates of this iteration that have a template and do not collide
LpPassing ==
    {c \in FilterByRules(LpCandidates(lpI), lpDir) :
       /\ c.key \in lpLoaded
       /\ ~LpCheckCollision(SampleCenterline(LpPiece(c, lpPieces)),
                            UNION Range(lpRecent), lpOccupied)}

LowpolyInit ==
    /\ lpTpl \in TemplateSets
    /\ lpLoaded = {}
    /\ lpCount = 0
    /\ lpPieces = <<>>
    /\ lpOccupied = {}
    /\ lpRecent = <<>>
    /\ lpDir = InitialDir
    /\ lpI = 0
    /\ lpPc = "idle"

\* spawnProceduralRoadSystem1(count) up to its spawn loop: the old road is
\* dropped and the templates that load are kept
System1Start(count, loaded) ==
    /\ lpPc # "loop"
    /\ lpCount' = count
    /\ lpLoaded' = loaded
    /\ lpPieces' = <<>>
    /\ lpOccupied' = {}
    /\ lpRecent' = <<>>
    /\ lpDir' = InitialDir
    /\ lpI' = 0
    /\ lpPc' = IF count > 0 THEN "loop" ELSE "done"
    /\ UNCHANGED lpTpl
    /\ UNCHANGED notLowpoly

\* one iteration of the spawn loop that commits a piece: the shuffle can
\* put any candidate first, so any passing candidate can be the one
System1Commit ==
    /\ lpPc = "loop"
    /\ \E c \in LpPassing :
         LET piece == LpPiece(c, lpPieces)
             newCells == SampleCenterline(piece)
         IN  /\ lpOccupied' = lpOccupied \cup newCells
             /\ lpRecent' = IF Len(lpRecent) + 1 > RecentSets
                              THEN Tail(Append(lpRecent, newCells))
                              ELSE Append(lpRecent, newCells)
             /\ lpPieces' = Append(lpPieces, piece)
             /\ lpDir' = LpTrack(lpDir, c)
    /\ lpI' = lpI + 1
    /\ lpPc' = IF lpI + 1 < lpCount THEN "loop" ELSE "done"
    /\ UNCHANGED <<lpTpl, lpLoaded, lpCount>>
    /\ UNCHANGED notLowpoly

\* an iteration in which no candidate is placed: dead end, the loop is left
System1DeadEnd ==
    /\ lpPc = "loop"
    /\ LpPassing = {}
    /\ lpPc' = "done"
    /\ UNCHANGED <<lpTpl, lpLoaded, lpCount, lpPieces, lpOccupied, lpRecent,
                   lpDir, lpI>>
    /\ UNCHANGED notLowpoly

System1StartAny ==
    \E count \in {0, MaxSystem1Count}, loaded \in LoadedSets :
      System1Start(count, loaded)

LowpolyNext ==
    \/ System1StartAny
    \/ System1Commit
    \/ System1DeadEnd

(***************************************************************************)
(* LowPolyViewer.spawnSpineAndBranchSystem3 (src/src/lowpoly.js): a spine  *)
(* of Road1 pieces with RoadX junctions chosen by a seeded PRNG, and a     *)
(* side street of Road1 pieces from every queued junction socket.          *)
(*                                                                         *)
(* 32-bit words are kept as <<hi, lo>>, two 16-bit halves, so that every   *)
(* intermediate value of the arithmetic stays below 2^31.                  *)
(***************************************************************************)
Half == 65536

Byte == 256

RECURSIVE Pow2(_)
Pow2(k) == IF k = 0 THEN 1 ELSE 2 * Pow2(k - 1)

\* bitwise exclusive or of two numbers of n bits
RECURSIVE Xor(_, _, _)
Xor(a, b, n) ==
    IF n = 0 THEN 0
    ELSE ((a + b) % 2) + 2 * Xor(a \div 2, b \div 2, n - 1)

\* bitwise or of two numbers of n bits
RECURSIVE Or(_, _, _)
Or(a, b, n) ==
    IF n = 0 THEN 0
    ELSE (IF a % 2 = 1 \/ b % 2 = 1 THEN 1 ELSE 0)
           + 2 * Or(a \div 2, b \div 2, n - 1)

\* x ^ y on 32-bit words
Xor32(x, y) == <<Xor(x[1], y[1], 16), Xor(x[2], y[2], 16)>>

\* k | x for a constant k below 2^16
Or32(k, x) == <<x[1], Or(k, x[2], 16)>>

\* x >>> k for 0 < k < 16
Shr32(x, k) ==
    <<x[1] \div Pow2(k),
      x[2] \div Pow2(k) + (x[1] % Pow2(k)) * Pow2(16 - k)>>

\* x + y | 0
Add32(x, y) ==
    <<(x[1] + y[1] + (x[2] + y[2]) \div Half) % Half, (x[2] + y[2]) % Half>>

\* (a * b) mod 2^16 for 16-bit a and b
MulMod16(a, b) ==
    ((a % Byte) * b + (((a \div Byte) * b) % Byte) * Byte) % Half

\* (a * b) div 2^16 for 16-bit a and b
MulHigh16(a, b) ==
    ((a % Byte) * b + (((a \div Byte) * b) % Byte) * Byte) \div Half
      + ((a \div Byte) * b) \div Byte

\* Math.imul(x, y): the low 32 bits of the product
Imul32(x, y) ==
    <<(MulHigh16(x[2], y[2]) + MulMod16(x[2], y[1]) + MulMod16(x[1], y[2]))
        % Half,
      MulMod16(x[2], y[2])>>

SEED == 12345

SPINE_LENGTH == 20

BranchLength == 5

\* 0x6D2B79F5
Increment == <<27947, 31221>>

\* the greatest 32-bit word w with w / 4294967296 < ROADX_CHANCE (0.2):
\* 0x33333333
ChanceLimit == <<13107, 13107>>

\* seededRandom(): the new seedState and the word whose quotient by 2^32
\* is returned
SeededRandom(state) ==
    LET s  == Add32(state, Increment)
        t1 == Imul32(Xor32(s, Shr32(s, 15)), Or32(1, s))
        t2 == Xor32(Add32(t1, Imul32(Xor32(t1, Shr32(t1, 7)), Or32(61, t1))),
                    t1)
    IN  [state |-> s, word |-> Xor32(t2, Shr32(t2, 14))]

\* seededRandom() < ROADX_CHANCE
BelowChance(w) ==
    \/ w[1] < ChanceLimit[1]
    \/ w[1] = ChanceLimit[1] /\ w[2] <= ChanceLimit[2]

S3Names == {"Road1", "RoadX"}

SocketNames == {"socket_out", "socket_left", "socket_right"}

\* where the sockets of Road1.glb and RoadX.glb sit in the piece's frame
\* and how they turn the heading (quarter turns); a piece faces +Z
S3Geometry ==
    [Road1 |-> [socket_out   |-> [off |-> <<0, 10>>, turn |-> 0],
                socket_left  |-> [off |-> <<-5, 5>>, turn |-> 3],
                socket_right |-> [off |-> <<5, 5>>, turn |-> 1]],
     RoadX |-> [socket_out   |-> [off |-> <<0, 10>>, turn |-> 0],
                socket_left  |-> [off |-> <<-5, 5>>, turn |-> 3],
                socket_right |-> [off |-> <<5, 5>>, turn |-> 1]]]

\* what the loader can deliver: each file loads or fails, Road1 has a
\* socket_out or not, RoadX has any subset of the three sockets
S3TemplateSets ==
    {[Road1 |-> [loads |-> l1, sockets |-> s1],
      RoadX |-> [loads |-> lx, sockets |-> sx]] :
        l1 \in BOOLEAN, lx \in BOOLEAN,
        s1 \in {{}, {"socket_out"}}, sx \in SUBSET SocketNames}

\* both files load, Road1 with its socket_out and RoadX with all sockets
S3Complete(t) ==
    /\ t["Road1"] = [loads |-> TRUE, sockets |-> {"socket_out"}]
    /\ t["RoadX"] = [loads |-> TRUE, sockets |-> SocketNames]

\* findSocket(model, socketName): whether the model has the node
FindSocket(t, type, socketName) == socketName \in t[type].sockets

\* getSocketTransform(piece, socketName) of the local helper, for a piece
\* that has the socket
S3SocketTransform(piece, socketName) ==
    [pos |-> VAdd(piece.pos,
                  Rot(piece.rot, S3Geometry[piece.type][socketName].off)),
     rot |-> (piece.rot + S3Geometry[piece.type][socketName].turn) % 4]

S3Start == [pos |-> Origin, rot |-> 0]

System3Init ==
    /\ s3Tpl \in S3TemplateSets
    /\ templates = {}
    /\ s3Pieces = <<>>
    /\ seedState = <<0, SEED>>
    /\ draws = <<>>
    /\ branches = <<>>
    /\ walked = <<>>
    /\ s3Cur = S3Start
    /\ s3I = 0
    /\ s3B = 0
    /\ s3J = 0
    /\ s3Pc = "idle"
    /\ s3Runs = 0
    /\ s3Trace = [pieces |-> <<>>, branches |-> <<>>, draws |-> <<>>]

System3StartBuggy ==
    /\ s3Pc \in {"idle", "done"}
    /\ s3Runs < MaxRuns
    /\ s3Runs' = s3Runs + 1
    /\ s3Trace' = [pieces |-> s3Pieces, branches |-> branches,
                    draws |-> draws]
    /\ s3Pieces' = <<>>
    /\ seedState' = seedState
    /\ draws' = <<>>
    /\ templates' = {n \in S3Names : s3Tpl[n].loads}
    /\ branches' = <<>>
    /\ walked' = <<>>
    /\ s3Cur' = S3Start
    /\ s3I' = 0
    /\ s3B' = 0
    /\ s3J' = 0
    /\ s3Pc' = "spine"
    /\ UNCHANGED s3Tpl
    /\ UNCHANGED notSystem3

\* spawnSpineAndBranchSystem3() up to the spine loop: roadPieces is emptied,
\* the PRNG is seeded, the two templates are loaded
System3Start ==
    /\ s3Pc \in {"idle", "done"}
    /\ s3Runs < MaxRuns
    /\ s3Runs' = s3Runs + 1
    /\ s3Trace' = [pieces |-> s3Pieces, branches |-> branches,
                    draws |-> draws]
    /\ s3Pieces' = <<>>
    /\ seedState' = <<0, SEED>>
    /\ draws' = <<>>
    /\ templates' = {n \in S3Names : s3Tpl[n].loads}
    /\ branches' = <<>>
    /\ walked' = <<>>
    /\ s3Cur' = S3Start
    /\ s3I' = 0
    /\ s3B' = 0
    /\ s3J' = 0
    /\ s3Pc' = "spine"
    /\ UNCHANGED s3Tpl
    /\ UNCHANGED notSystem3

\* the spine loop is left: the branch loops begin, or the run is over when
\* no branch was queued
LeaveSpine(queued) ==
    /\ s3Pc' = IF queued = <<>> THEN "done" ELSE "branches"
    /\ s3B' = IF queued = <<>> THEN 0 ELSE 1
    /\ s3J' = 0
    /\ walked' = [b \in 1..Len(queued) |-> IF b = 1 THEN 1 ELSE 0]
    /\ s3Cur' = IF queued = <<>> THEN s3Cur
                ELSE [pos |-> queued[1].pos, rot |-> queued[1].rot]

QueuedByBuggy(piece) ==
    IF FindSocket(s3Tpl, piece.type, "socket_left")
    THEN <<[pos |-> S3SocketTransform(piece, "socket_left").pos,
            rot |-> S3SocketTransform(piece, "socket_left").rot,
            side |-> "left", length |-> BranchLength]>>
    ELSE <<>>

\* the branches a junction queues: left first, then right, each only when
\* the junction has the socket
QueuedBy(piece) ==
    LET side(name, s) ==
          IF FindSocket(s3Tpl, piece.type, name)
          THEN <<[pos |-> S3SocketTransform(piece, name).pos,
                  rot |-> S3SocketTransform(piece, name).rot,
                  side |-> s, length |-> BranchLength]>>
          ELSE <<>>
    IN  side("socket_left", "left") \o side("socket_right", "right")

\* whether the junction test of spine index i calls seededRandom
DrawsAt(i) == i > 0 /\ i < SPINE_LENGTH - 1

\* one iteration of the spine loop
SpineStep ==
    /\ s3Pc = "spine"
    /\ \E r \in {SeededRandom(seedState)} :
       \E useRoadX \in {DrawsAt(s3I) /\ BelowChance(r.word)} :
       \E pieceType \in {IF useRoadX THEN "RoadX" ELSE "Road1"} :
       \E piece \in {[type |-> pieceType, pos |-> s3Cur.pos,
                      rot |-> s3Cur.rot, chain |-> 0]} :
       \E queued \in {IF useRoadX /\ pieceType \in templates
                      THEN branches \o QueuedBy(piece) ELSE branches} :
          /\ seedState' = IF DrawsAt(s3I) THEN r.state ELSE seedState
          /\ draws' = IF DrawsAt(s3I) THEN Append(draws, s3I) ELSE draws
          /\ branches' = queued
          /\ IF pieceType \notin templates
             THEN \* spawnPiece returns null
                  /\ s3Pieces' = s3Pieces
                  /\ s3I' = s3I
                  /\ LeaveSpine(queued)
             ELSE /\ s3Pieces' = Append(s3Pieces, piece)
                  /\ IF ~FindSocket(s3Tpl, pieceType, "socket_out")
                     THEN \* no socket_out: the spine stops
                          /\ s3I' = s3I
                          /\ LeaveSpine(queued)
                     ELSE /\ s3I' = s3I + 1
                          /\ IF s3I + 1 < SPINE_LENGTH
                             THEN /\ s3Cur' = S3SocketTransform(piece,
                                                               "socket_out")
                                  /\ UNCHANGED <<s3Pc, s3B, s3J, walked>>
                             ELSE LeaveSpine(queued)
    /\ UNCHANGED <<s3Tpl, templates, s3Runs, s3Trace>>
    /\ UNCHANGED notSystem3

\* the inner loop of branch s3B is left: the next branch begins, or the
\* run is over
LeaveBranch ==
    IF s3B < Len(branches)
    THEN /\ s3B' = s3B + 1
         /\ s3J' = 0
         /\ walked' = [walked EXCEPT ![s3B + 1] = @ + 1]
         /\ s3Cur' = [pos |-> branches[s3B + 1].pos,
                      rot |-> branches[s3B + 1].rot]
         /\ UNCHANGED s3Pc
    ELSE /\ s3Pc' = "done"
         /\ UNCHANGED <<s3B, s3J, walked, s3Cur>>

\* one iteration of the inner loop of the branch loops
BranchStep ==
    /\ s3Pc = "branches"
    /\ \E piece \in {[type |-> "Road1", pos |-> s3Cur.pos, rot |-> s3Cur.rot,
                      chain |-> s3B]} :
          IF "Road1" \notin templates
          THEN /\ UNCHANGED s3Pieces
               /\ LeaveBranch
          ELSE /\ s3Pieces' = Append(s3Pieces, piece)
               /\ IF ~FindSocket(s3Tpl, "Road1", "socket_out")
                  THEN LeaveBranch
                  ELSE IF s3J + 1 < branches[s3B].length
                       THEN /\ s3J' = s3J + 1
                            /\ s3Cur' = S3SocketTransform(piece, "socket_out")
                            /\ UNCHANGED <<s3Pc, s3B, walked>>
                       ELSE LeaveBranch
    /\ UNCHANGED <<s3Tpl, templates, seedState, draws, branches, s3I, s3Runs,
                   s3Trace>>
    /\ UNCHANGED notSystem3

System3Next ==
    \/ System3Start
    \/ SpineStep
    \/ BranchStep

(***************************************************************************)
(* LowPolyViewer.spawnRoadNetworkSystem2 (src/src/lowpoly.js): a network   *)
(* of Road1 and RoadX pieces grown from a queue of open sockets.           *)
(***************************************************************************)
\* const steps = 5 of sampleCenterline
CenterlineSteps == 5

\* maxAttempts = count * 3
AttemptsFactor == 3

\* firstPiece.position.set(0, 0, 5)
S2FirstPosition == <<0, 5>>

S2NoEvt == [op |-> "none", type |-> "none", committed |-> FALSE,
            blocked |-> FALSE, cells |-> {}, parent |-> {}]

\* findAllSockets(model), in traversal order: each socket with its type
FindAllSockets(piece) ==
    LET has(n) == n \in s2Tpl[piece.type].sockets
        one(n, t) == IF has(n) THEN <<[name |-> n, type |-> t]>> ELSE <<>>
    IN  one("socket_out", "out") \o one("socket_left", "left")
          \o one("socket_right", "right")

\* the world transforms of the piece's sockets, as pushed onto openSockets
SocketEntries(piece) ==
    LET found == FindAllSockets(piece)
    IN  [k \in 1..Len(found) |->
           [pos |-> S3SocketTransform(piece, found[k].name).pos,
            rot |-> S3SocketTransform(piece, found[k].name).rot,
            type |-> found[k].type]]

\* sampleCenterline(piece), as the set of the cell keys of its samples:
\* the origin, and five points on the way to every socket
S2SampleCenterline(piece) ==
    {CellAt(piece.pos, piece.pos, 0, 1, LP_GRID_CELL_SIZE)}
      \cup {CellAt(piece.pos, S3SocketTransform(piece, sk.name).pos, i,
                   CenterlineSteps, LP_GRID_CELL_SIZE) :
              sk \in Range(FindAllSockets(piece)), i \in 1..CenterlineSteps}

\* checkCollision(samples)
S2CheckCollision(cells, occupied) == \E c \in cells : c \in occupied

\* the condition of the while loop
S2Continues(placed, open, attempts, count) ==
    /\ placed < count
    /\ Len(open) > 0
    /\ attempts < count * AttemptsFactor

System2Init ==
    /\ s2Tpl \in S3TemplateSets
    /\ s2Templates = {}
    /\ s2Pieces = <<>>
    /\ s2Occupied = {}
    /\ openSockets = <<>>
    /\ s2Placed = 0
    /\ s2Attempts = 0
    /\ s2Count = 0
    /\ s2Pc = "idle"
    /\ s2Evt = S2NoEvt

\* spawnRoadNetworkSystem2(count) up to its while loop: the old road is
\* dropped, the templates are loaded, the first piece is placed and its
\* sockets are queued; without a Road1 template the clone of the first
\* piece throws
System2Start(count) ==
    /\ s2Pc # "loop"
    /\ s2Count' = count
    /\ s2Templates' = {n \in S3Names : s2Tpl[n].loads}
    /\ s2Attempts' = 0
    /\ IF "Road1" \notin s2Templates'
         THEN /\ s2Pieces' = <<>>
              /\ s2Occupied' = {}
              /\ openSockets' = <<>>
              /\ s2Placed' = 0
              /\ s2Pc' = "failed"
              /\ s2Evt' = [S2NoEvt EXCEPT !.op = "start"]
         ELSE \E firstPiece \in {[type |-> "Road1", pos |-> S2FirstPosition,
                                  rot |-> 0]} :
              \E firstSamples \in {S2SampleCenterline(firstPiece)} :
                /\ s2Pieces' = <<firstPiece>>
                /\ s2Occupied' = firstSamples
                /\ openSockets' = SocketEntries(firstPiece)
                /\ s2Placed' = 1
                /\ s2Pc' = IF S2Continues(1, openSockets', 0, count)
                             THEN "loop" ELSE "done"
                /\ s2Evt' = [S2NoEvt EXCEPT !.op = "start",
                                            !.type = "Road1",
                                            !.committed = TRUE,
                                            !.cells = firstSamples]
    /\ UNCHANGED s2Tpl
    /\ UNCHANGED notSystem2

\* one iteration of the while loop: socketIdx and pieceType are the random
\* picks
System2Attempt(socketIdx, pieceType) ==
    /\ s2Pc = "loop"
    /\ socketIdx \in 1..Len(openSockets)
    /\ s2Attempts' = s2Attempts + 1
    /\ IF pieceType \notin s2Templates
         THEN \* continue
              /\ s2Evt' = [S2NoEvt EXCEPT !.op = "attempt",
                                          !.type = pieceType]
              /\ s2Pc' = IF S2Continues(s2Placed, openSockets, s2Attempts',
                                        s2Count)
                           THEN "loop" ELSE "done"
              /\ UNCHANGED <<s2Pieces, s2Occupied, openSockets, s2Placed>>
         ELSE \E piece \in {[type |-> pieceType,
                             pos |-> openSockets[socketIdx].pos,
                             rot |-> openSockets[socketIdx].rot]} :
              \E samples \in {S2SampleCenterline(piece)} :
              \E parent \in {UNION {S2SampleCenterline(q) :
                                      q \in {p \in Range(s2Pieces) :
                                               \E e \in Range(SocketEntries(p)) :
                                                 e.pos = piece.pos}}} :
                IF S2CheckCollision(samples, s2Occupied)
                  THEN \* the socket is blocked
                       /\ openSockets' = RemoveAt(openSockets, socketIdx)
                       /\ s2Evt' = [op |-> "attempt", type |-> pieceType,
                                    committed |-> FALSE, blocked |-> TRUE,
                                    cells |-> samples, parent |-> parent]
                       /\ s2Pc' = IF S2Continues(s2Placed, openSockets',
                                                 s2Attempts', s2Count)
                                    THEN "loop" ELSE "done"
                       /\ UNCHANGED <<s2Pieces, s2Occupied, s2Placed>>
                  ELSE /\ s2Occupied' = s2Occupied \cup samples
                       /\ s2Pieces' = Append(s2Pieces, piece)
                       /\ openSockets' = RemoveAt(openSockets, socketIdx)
                                           \o SocketEntries(piece)
                       /\ s2Placed' = s2Placed + 1
                       /\ s2Evt' = [op |-> "attempt", type |-> pieceType,
                                    committed |-> TRUE, blocked |-> FALSE,
                                    cells |-> samples, parent |-> parent]
                       /\ s2Pc' = IF S2Continues(s2Placed', openSockets',
                                                 s2Attempts', s2Count)
                                    THEN "loop" ELSE "done"
    /\ UNCHANGED <<s2Tpl, s2Templates, s2Count>>
    /\ UNCHANGED notSystem2

System2StartAny == \E count \in 0..MaxNetworkCount : System2Start(count)

System2AttemptAny ==
    \E socketIdx \in 1..3 * MaxNetworkCount, pieceType \in S3Names :
      System2Attempt(socketIdx, pieceType)

System2Next ==
    \/ System2StartAny
    \/ System2AttemptAny

(***************************************************************************)
(* LowPolyViewer.generateRoad (src/src/lowpoly.js): pieces snapped socket  *)
(* to socket, each tried against the occupied cells; after a failed        *)
(* iteration only straights are offered, and the run gives up after        *)
(* maxFailures consecutive failures.                                       *)
(***************************************************************************)
\* maxFailures
MaxFailures == 5

\* the key sets this.roadTemplates can end up with: each load may fail
GenerateLoadedSets ==
    {RoadNames, {"road_short", "road_curve_tight"}, {"road_curve_tight"}, {}}

PieceOptionsSwapped(failures) ==
    IF failures > 0
      THEN <<"road_curve_wide", "road_curve_tight">>
      ELSE <<"road_long", "road_short">>

PieceOptionsBuggy(failures) ==
    <<"road_long", "road_short", "road_curve_wide", "road_curve_tight">>

\* pieceOptions
PieceOptions(failures) ==
    IF failures > 0
      THEN <<"road_long", "road_short">>
      ELSE <<"road_long", "road_short", "road_curve_wide", "road_curve_tight">>

GrNoEvt == [op |-> "none", options |-> {}, tried |-> <<>>, placed |-> FALSE]

\* findSocketOut(piece)
GrFindSocketOut(piece) == grTpl[piece.name].hasSocket

\* getSocketTransform(piece), for a piece that has a socket
GrSocketTransform(piece) ==
    [position |-> SocketWorldPos(grTpl[piece.name], piece, LowpolyScale),
     quaternion |-> SocketWorldRot(grTpl[piece.name], piece)]

\* sampleRoadCells(piece)
GrSampleRoadCells(piece) ==
    IF ~GrFindSocketOut(piece)
      THEN {}
      ELSE LineCells(piece.pos, GrSocketTransform(piece).position,
                     LP_GRID_CELL_SIZE)

\* the test instance trySpawnRoadPiece clones and places; sampled is what
\* sampleRoadCells returns for it, kept with the piece
TestInstance(pieceName, at, id, sampled) ==
    [id |-> id, name |-> pieceName, pos |-> at.position,
     rot |-> at.quaternion, mirror |-> FALSE, cells |-> sampled]

\* sampleRoadCells(testInstance) for the test instance of every road name
\* at the transform given
TestCells(at) ==
    [n \in RoadNames |-> GrSampleRoadCells(TestInstance(n, at, 0, {}))]

GrRecentCellsBuggy(pieces) ==
    UNION {pieces[i].cells :
             i \in (Len(pieces) - Min(1, Len(pieces)) + 1)..Len(pieces)}

\* trySpawnRoadPiece: the cells of the last two pieces of roadPieces
GrRecentCells(pieces) ==
    UNION {pieces[i].cells :
             i \in (Len(pieces) - Min(RecentCount, Len(pieces)) + 1)
                     ..Len(pieces)}

\* trySpawnRoadPiece: hasRoadCollision
HasRoadCollision(cells, recentCells, occupied) ==
    \E c \in cells : c \in occupied /\ c \notin recentCells

\* trySpawnRoadPiece(pieceName, position, quaternion) on the state
\* w = [pieces, occupied, scene]: the state it leaves and whether it
\* returned a piece.  The test instance is in the scene while it is
\* checked and is taken out again when it collides.  sampled[n] is
\* sampleRoadCells of the test instance of name n at this transform.
TrySpawnRoadPiece(w, pieceName, at, sampled) ==
    IF pieceName \notin roadTemplates
      THEN [w EXCEPT !.ok = FALSE]
      ELSE LET testInstance == TestInstance(pieceName, at, Len(w.pieces) + 1,
                                            sampled[pieceName])
               during == w.scene \cup {testInstance.id}
           IN  IF HasRoadCollision(testInstance.cells,
                                   GrRecentCells(w.pieces), w.occupied)
                 THEN [w EXCEPT !.scene = during \ {testInstance.id},
                                !.ok = FALSE]
                 ELSE [pieces |-> Append(w.pieces, testInstance),
                       occupied |-> w.occupied \cup testInstance.cells,
                       scene |-> during,
                       ok |-> TRUE]

\* the inner loop of generateRoad over the shuffled options from index k:
\* the first option trySpawnRoadPiece accepts ends it
\* (w = [pieces, occupied, scene, ok], tried = the names tried so far)
RECURSIVE TryInOrder(_, _, _, _, _, _)
TryInOrder(w, order, k, at, sampled, tried) ==
    IF k > Len(order)
      THEN [w |-> w, tried |-> tried]
      ELSE LET r == CHOOSE x \in {TrySpawnRoadPiece(w, order[k], at,
                                                   sampled)} : TRUE
           IN  IF r.ok
                 THEN [w |-> r, tried |-> Append(tried, order[k])]
                 ELSE TryInOrder(r, order, k + 1, at, sampled,
                                 Append(tried, order[k]))

GenerateInit ==
    /\ grTpl \in TemplateSets
    /\ roadTemplates \in GenerateLoadedSets
    /\ grPieces = <<>>
    /\ grOccupied = {}
    /\ grScene = {}
    /\ grCur = [position |-> Origin, quaternion |-> 0]
    /\ consecutiveFailures = 0
    /\ grI = 0
    /\ grCount = 0
    /\ grPc = "idle"
    /\ grCalls = 0
    /\ grEvt = GrNoEvt

\* generateRoad(count) up to its loop: the old road leaves the scene,
\* roadPieces and occupiedCells are emptied
LpGenerateRoad(count) ==
    /\ grPc \in {"idle", "done"}
    /\ grCalls < MaxGenerateCalls
    /\ grCalls' = grCalls + 1
    /\ grScene' = grScene \ {grPieces[k].id : k \in 1..Len(grPieces)}
    /\ grPieces' = <<>>
    /\ grOccupied' = {}
    /\ grCur' = [position |-> Origin, quaternion |-> 0]
    /\ consecutiveFailures' = 0
    /\ grI' = 0
    /\ grCount' = count
    /\ grPc' = IF 0 < count THEN "loop" ELSE "done"
    /\ grEvt' = [GrNoEvt EXCEPT !.op = "generateRoad"]
    /\ UNCHANGED <<grTpl, roadTemplates>>
    /\ UNCHANGED notGenerate

\* one iteration of generateRoad's loop (an iteration that would commit
\* piece number cap + 1 is not explored)
LpGenerateStepCapped(cap) ==
    /\ grPc = "loop"
    /\ \E sampled \in {TestCells(grCur)} :
       \E order \in Shuffles(PieceOptions(consecutiveFailures)) :
       \E r \in {TryInOrder([pieces |-> grPieces, occupied |-> grOccupied,
                             scene |-> grScene, ok |-> FALSE],
                            order, 1, grCur, sampled, <<>>)} :
       \E failures \in {IF r.w.ok THEN 0 ELSE consecutiveFailures + 1} :
          /\ Len(r.w.pieces) <= cap
          /\ grPieces' = r.w.pieces
          /\ grOccupied' = r.w.occupied
          /\ grScene' = r.w.scene
          /\ consecutiveFailures' = failures
          /\ grCur' = IF r.w.ok /\ GrFindSocketOut(Last(r.w.pieces))
                        THEN GrSocketTransform(Last(r.w.pieces))
                        ELSE grCur
          /\ grI' = grI + 1
          /\ grPc' = IF grI + 1 < grCount /\ failures < MaxFailures
                       THEN "loop" ELSE "done"
          /\ grEvt' = [op |-> "step", options |-> Range(order),
                       tried |-> r.tried, placed |-> r.w.ok]
    /\ UNCHANGED <<grTpl, roadTemplates, grCount, grCalls>>
    /\ UNCHANGED notGenerate

LpGenerateStep == LpGenerateStepCapped(MaxGeneratePieces)

\* the counts explored
GenerateCounts == {0, MaxGenerateCount \div 2, MaxGenerateCount}

LpGenerateRoadAny == \E count \in GenerateCounts : LpGenerateRoad(count)

GenerateNext ==
    \/ LpGenerateRoadAny
    \/ LpGenerateStep

(***************************************************************************)
(* RoadManager (src/unnamed/part_001): the road is a queue of segments     *)
(* taken from one ObjectPool per segment type and given back when the      *)
(* player has left them behind.  Of a segment's place only the world Z     *)
(* matters to the manager; it is kept in whole units.                      *)
(***************************************************************************)
\* this.segmentsAhead
SegmentsAhead == 10

\* this.segmentsBehind
SegmentsBehind == 3

\* this.defaultSegmentLength
DefaultSegmentLength == 20

\* new ObjectPool(createFn, resetFn, 2)
PoolInitialSize == 2

\* 100 * cos(0.15 * k) and 100 * sin(0.15 * k), rounded, for k = 1..5
Cos100 == <<99, 96, 90, 83, 73>>

Sin100 == <<15, 30, 43, 56, 68>>

\* 100 * cos and 100 * sin of h turns of 0.15 rad
CosTurns(h) == IF h = 0 THEN 100 ELSE Cos100[IF h < 0 THEN -h ELSE h]

SinTurns(h) ==
    IF h = 0 THEN 0 ELSE IF h < 0 THEN -Sin100[-h] ELSE Sin100[h]

\* createPlaceholderSegments(): inPoint = (0, 0, 10),
\* outPoint = (sin(curve) * 20, 0, -cos(curve) * 20), outRotation = curve
PlaceholderTemplates ==
    [straight    |-> [inZ |-> 10, outX |-> 0, outZ |-> -20, turn |-> 0,
                      weight |-> 3],
     curve_left  |-> [inZ |-> 10, outX |-> -3, outZ |-> -20, turn |-> -1,
                      weight |-> 1],
     curve_right |-> [inZ |-> 10, outX |-> 3, outZ |-> -20, turn |-> 1,
                      weight |-> 1]]

\* loadSegments(segmentDefs) for one definition whose model has no
\* connection markers: the default points, no outRotation
LoadedTemplates ==
    [segment |-> [inZ |-> 10, outX |-> 0, outZ |-> -10, turn |-> 0,
                  weight |-> 1]]

RmTemplateSets == {PlaceholderTemplates, LoadedTemplates}

RmNoEvt == [op |-> "new", recycled |-> <<>>, added |-> 0]

\* new ObjectPool(createFn, resetFn, 2) for the segments of a type
NewSegmentPool(type) ==
    [type |-> type,
     available |-> [k \in 1..PoolInitialSize |-> <<type, k>>],
     inUse |-> <<>>,
     created |-> PoolInitialSize]

\* pool.acquire(): the pool afterwards and the object returned
PoolAcquire(pool) ==
    IF Len(pool.available) > 0
      THEN [pool |-> [pool EXCEPT !.available = Front(pool.available),
                                  !.inUse = SetAdd(pool.inUse,
                                                   Last(pool.available))],
            obj |-> Last(pool.available)]
      ELSE LET fresh == <<pool.type, pool.created + 1>>
           IN  [pool |-> [pool EXCEPT !.inUse = SetAdd(pool.inUse, fresh),
                                      !.created = pool.created + 1],
                obj |-> fresh]

\* pool.release(obj), with the reset hook of createSegmentPool, which
\* returns normally
PoolRelease(pool, obj) ==
    IF obj \notin Range(pool.inUse)
      THEN pool
      ELSE [pool EXCEPT !.inUse = Without(pool.inUse, obj),
                        !.available = Append(pool.available, obj)]

\* the types selectRandomSegmentType() can return
SegmentTypes(tpls) == {t \in DOMAIN tpls : tpls[t].weight > 0}

\* addSegmentAhead() with selectRandomSegmentType() = type, on the road
\* given (w = [active, pools, endZ, heading, recycled, added])
AddSegmentAhead(w, type) ==
    LET t == rmTemplates[type]
        p == PoolAcquire(w.pools[type])
        z == w.endZ - RoundDiv(t.inZ * CosTurns(w.heading), 100)
        out == RoundDiv(t.outX * SinTurns(w.heading)
                          + t.outZ * CosTurns(w.heading), 100)
    IN  [w EXCEPT !.pools = [w.pools EXCEPT ![type] = p.pool],
                  !.active = Append(w.active, [obj |-> p.obj, z |-> z]),
                  !.endZ = z + out,
                  !.heading = w.heading + t.turn,
                  !.added = w.added + 1]

RecyclePoolBuggy(segment) == "straight"

\* this.segmentPools.get(segment.type)
RecyclePool(segment) == segment.obj[1]

\* recycleOldestSegment()
RecycleOldestSegment(w) ==
    IF Len(w.active) = 0
      THEN w
      ELSE LET segment == Head(w.active)
               type == RecyclePool(segment)
           IN  [w EXCEPT !.active = Tail(w.active),
                         !.pools = [w.pools EXCEPT ![type] =
                                      PoolRelease(w.pools[type], segment.obj)],
                         !.recycled = Append(w.recycled, segment.obj)]

\* the first while loop of update(playerPosition)
RECURSIVE RecycleBehind(_, _, _)
RecycleBehind(w, segmentsBehind, playerZ) ==
    IF /\ segmentsBehind > SegmentsBehind
       /\ Len(w.active) > 0
       /\ Head(w.active).z > playerZ + DefaultSegmentLength * 2
      THEN RecycleBehind(RecycleOldestSegment(w), segmentsBehind - 1, playerZ)
      ELSE w

\* repeated addSegmentAhead(), for the types given
RECURSIVE AddAhead(_, _)
AddAhead(w, types) ==
    IF types = <<>> THEN w
    ELSE AddAhead(AddSegmentAhead(w, Head(types)), Tail(types))

\* the segments of a road that are not straight
Curves(active) ==
    {k \in 1..Len(active) : rmTemplates[active[k].obj[1]].turn # 0}

\* the road as a record
RmRoad ==
    [active |-> rmActive, pools |-> rmPools, endZ |-> rmEndZ,
     heading |-> rmHeading, recycled |-> <<>>, added |-> 0]

\* constructor(scene, assetLoader); rmTemplates is what init will find
RoadManagerInit ==
    /\ rmTemplates \in RmTemplateSets
    /\ rmPools = [t \in {} |-> 0]
    /\ rmActive = <<>>
    /\ rmEndZ = 0
    /\ rmHeading = 0
    /\ rmPc = "new"
    /\ rmUpdates = 0
    /\ rmEvt = RmNoEvt

\* init(segmentDefs) up to generateInitialRoad(): the templates are set and
\* a pool is created for every type
RmInit ==
    /\ rmPc = "new"
    /\ rmPools' = [t \in DOMAIN rmTemplates |-> NewSegmentPool(t)]
    /\ rmPc' = "init"
    /\ rmEvt' = [RmNoEvt EXCEPT !.op = "init"]
    /\ UNCHANGED <<rmTemplates, rmActive, rmEndZ, rmHeading, rmUpdates>>
    /\ UNCHANGED notRoadManager

\* the road w becomes the manager's; roads with more than MaxCurves curved
\* segments or a heading beyond MaxHeading turns are not explored
RmCommit(w) ==
    /\ Cardinality(Curves(w.active)) <= MaxCurves
    /\ w.heading <= MaxHeading
    /\ -w.heading <= MaxHeading
    /\ rmActive' = w.active
    /\ rmPools' = w.pools
    /\ rmEndZ' = w.endZ
    /\ rmHeading' = w.heading

\* one iteration of generateInitialRoad()
RmInitialSegment ==
    /\ rmPc = "init"
    /\ \E type \in SegmentTypes(rmTemplates) :
       \E w \in {AddSegmentAhead(RmRoad, type)} :
         /\ RmCommit(w)
         /\ rmPc' = IF Len(w.active) < SegmentsAhead THEN "init" ELSE "ready"
         /\ rmEvt' = [RmNoEvt EXCEPT !.op = "initialSegment", !.added = 1]
    /\ UNCHANGED <<rmTemplates, rmUpdates>>
    /\ UNCHANGED notRoadManager

\* update(playerPosition) with playerPosition.z = playerZ
RmUpdate(playerZ) ==
    /\ rmPc = "ready"
    /\ rmUpdates < MaxUpdates
    /\ rmUpdates' = rmUpdates + 1
    /\ \E segmentsBehind \in
            {Cardinality({k \in 1..Len(rmActive) : rmActive[k].z > playerZ})} :
       \E segmentsAhead \in {Len(rmActive) - segmentsBehind} :
       \E w1 \in {RecycleBehind(RmRoad, segmentsBehind, playerZ)} :
       \E types \in {f \in [1..Max(0, SegmentsAhead - segmentsAhead)
                              -> SegmentTypes(rmTemplates)] :
                         Cardinality({i \in DOMAIN f :
                                        rmTemplates[f[i]].turn # 0})
                           <= MaxCurves} :
       \E w2 \in {AddAhead(w1, types)} :
         /\ RmCommit(w2)
         /\ rmEvt' = [op |-> "update", recycled |-> w2.recycled,
                      added |-> w2.added]
    /\ UNCHANGED <<rmTemplates, rmPc>>
    /\ UNCHANGED notRoadManager

\* where the player is when update is called
PlayerZs == {0, -60, -120, -180}

RmUpdateAny == \E playerZ \in PlayerZs : RmUpdate(playerZ)

RoadManagerNext ==
    \/ RmInit
    \/ RmInitialSegment
    \/ RmUpdateAny

(***************************************************************************)
(* BuildingManager (src/core/BuildingManager.js): lots on both sides of    *)
(* the road are filled from one ObjectPool as the player advances and      *)
(* emptied behind the player.  Positions are whole units; a call of        *)
(* Math.random() returns k/5 for the next k of a repeating pattern.        *)
(***************************************************************************)
\* config.roadWidth
RoadWidth == 12

\* config.sidewalkWidth
SidewalkWidth == 3

\* config.buildingSetback
BuildingSetback == 2

\* config.gridCellSize
GridCellSize == 15

\* config.spawnDistance
SpawnDistance == 200

\* config.despawnDistance
DespawnDistance == 50

\* config.rowsPerSide
RowsPerSide == 2

\* new ObjectPool(createFn, resetFn, 30)
BuildingPoolSize == 30

\* the building types of createPlaceholderBuildings(), one randFloat each
PlaceholderBuildings == 5

\* initializeArea: this.lastSpawnZ = startPosition.z + 50
AreaBehind == 50

\* Math.random() * 5
JitterSpan == 5

\* the values k of Math.random() = k / JitterSpan
Fifths == 0..(JitterSpan - 1)

\* the patterns Math.random() can repeat
RandomPatterns == [1..PatternLen -> Fifths]

\* the k-th value Math.random() returns
Draw(k) == bmRandom[((k - 1) % Len(bmRandom)) + 1]

BmNoEvt == [op |-> "new", released |-> <<>>]

\* new ObjectPool(createFn, resetFn, 30)
NewBuildingPool ==
    [type |-> "building",
     available |-> [k \in 1..BuildingPoolSize |-> <<"building", k>>],
     inUse |-> <<>>,
     created |-> BuildingPoolSize]

\* `${Math.floor(x / gridCellSize)}_${Math.floor(z / gridCellSize)}`
CellKey(x, z) == <<x \div GridCellSize, z \div GridCellSize>>

\* leftEdge and rightEdge of generateSection
LeftEdge == -(RoadWidth \div 2) - SidewalkWidth - BuildingSetback

RightEdge == (RoadWidth \div 2) + SidewalkWidth + BuildingSetback

\* spawnBuilding(x, z + Math.random() * 5, side) on the manager w, whose
\* next draw is w.next: the argument's draw, createFn's draw when the pool
\* makes a new building, and the rotation's draw; claimed is the cell
\* generateSection adds for the building (kept for the properties only)
SpawnBuilding(w, x, z, claimed) ==
    LET worldZ == z + Draw(w.next)
        fresh  == Len(w.pool.available) = 0
        got    == PoolAcquire(w.pool)
    IN  [w EXCEPT !.pool = got.pool,
                  !.active = Append(w.active,
                                    [obj |-> got.obj, x |-> x,
                                     worldZ |-> worldZ, claimed |-> claimed]),
                  !.next = w.next + (IF fresh THEN 3 ELSE 2)]

\* one lot of generateSection: row `row` of the side at grid line z
GenerateLot(w, z, row, side) ==
    LET x == IF side = "left"
               THEN LeftEdge - (row * GridCellSize) - Draw(w.next)
               ELSE RightEdge + (row * GridCellSize) + Draw(w.next)
        cellKey == CellKey(x, z)
        w1 == [w EXCEPT !.next = w.next + 1]
    IN  IF cellKey \in w.occupied
          THEN w1
          ELSE LET w2 == [w1 EXCEPT !.next = w1.next + 1]
               IN  IF Draw(w1.next) > 1
                     THEN LET w3 == SpawnBuilding(w2, x, z, cellKey)
                          IN  [w3 EXCEPT !.occupied =
                                            w3.occupied \cup {cellKey}]
                     ELSE w2

\* the rows of one side at grid line z, from row on
RECURSIVE GenerateRows(_, _, _, _)
GenerateRows(w, z, row, side) ==
    IF row >= RowsPerSide THEN w
    ELSE LET lot == GenerateLot(w, z, row, side)
         IN  IF lot.next > 0 THEN GenerateRows(lot, z, row + 1, side)
             ELSE lot

\* generateSection(startZ, endZ), from grid line z on
RECURSIVE GenerateSection(_, _, _)
GenerateSection(w, z, endZ) ==
    IF z <= endZ THEN w
    ELSE LET line == GenerateRows(GenerateRows(w, z, 0, "left"),
                                  z, 0, "right")
         IN  IF line.next > 0
               THEN GenerateSection(line, z - GridCellSize, endZ)
               ELSE line

\* the cell update() deletes for a despawned building
ReleasedCell(building) == CellKey(building.x, building.worldZ)

\* buildingPool.release(building) for the buildings of `gone`, in order
RECURSIVE ReleaseBuildings(_, _)
ReleaseBuildings(pool, gone) ==
    IF gone = <<>> THEN pool
    ELSE LET released == PoolRelease(pool, Head(gone).obj)
         IN  IF released.created > 0
               THEN ReleaseBuildings(released, Tail(gone))
               ELSE released

\* the despawn loops of update() for the line despawnZ
Despawn(w, despawnZ) ==
    LET gone == SelectSeq(w.active, LAMBDA b : b.worldZ > despawnZ)
        kept == SelectSeq(w.active, LAMBDA b : ~(b.worldZ > despawnZ))
    IN  [w EXCEPT !.pool = ReleaseBuildings(w.pool, gone),
                  !.occupied = w.occupied \
                     {ReleasedCell(gone[k]) : k \in 1..Len(gone)},
                  !.active = kept]

\* the manager's state as one value
BmWorld ==
    [pool |-> bmPool, active |-> bmActive, occupied |-> bmOccupied,
     next |-> bmNext]

\* constructor
BuildingManagerInit ==
    /\ bmPool = [type |-> "building", available |-> <<>>, inUse |-> <<>>,
                 created |-> 0]
    /\ bmActive = <<>>
    /\ bmOccupied = {}
    /\ lastSpawnZ = 0
    /\ bmNext = 1
    /\ bmPc = "new"
    /\ bmUpdates = 0
    /\ bmEvt = BmNoEvt

\* the state a step leaves, with the draws it has used
BmCommit(w) ==
    /\ bmPool' = w.pool
    /\ bmActive' = w.active
    /\ bmOccupied' = w.occupied
    /\ bmNext' = ((w.next - 1) % Len(bmRandom)) + 1

\* init(): the placeholder buildings and the pool, which creates its 30
\* buildings at once
BmInit ==
    /\ bmPc = "new"
    /\ bmPc' = "ready"
    /\ bmPool' = NewBuildingPool
    /\ bmNext' = ((bmNext - 1 + PlaceholderBuildings + BuildingPoolSize)
                    % Len(bmRandom)) + 1
    /\ bmEvt' = [op |-> "init", released |-> <<>>]
    /\ UNCHANGED <<bmActive, bmOccupied, lastSpawnZ, bmRandom, bmUpdates>>
    /\ UNCHANGED notBuilding

\* initializeArea(startPosition) with startPosition.z = startZ
InitializeArea(startZ) ==
    /\ bmPc = "ready"
    /\ bmPc' = "area"
    /\ lastSpawnZ' = startZ + AreaBehind
    /\ BmCommit(GenerateSection(BmWorld, startZ + AreaBehind,
                                startZ - SpawnDistance))
    /\ bmEvt' = [op |-> "initializeArea", released |-> <<>>]
    /\ UNCHANGED <<bmRandom, bmUpdates>>
    /\ UNCHANGED notBuilding

\* update(playerPosition) with playerPosition.z = playerZ
BmUpdate(playerZ) ==
    /\ bmPc = "area"
    /\ bmUpdates < MaxBmUpdates
    /\ bmUpdates' = bmUpdates + 1
    /\ LET targetSpawnZ == playerZ - SpawnDistance
           despawnZ == playerZ + DespawnDistance
       IN  \E spawned \in {IF lastSpawnZ > targetSpawnZ
                             THEN GenerateSection(BmWorld, lastSpawnZ,
                                                  targetSpawnZ)
                             ELSE BmWorld} :
             /\ lastSpawnZ' = IF lastSpawnZ > targetSpawnZ
                                THEN targetSpawnZ ELSE lastSpawnZ
             /\ BmCommit(Despawn(spawned, despawnZ))
             /\ bmEvt' = [op |-> "update",
                          released |-> SelectSeq(spawned.active,
                                          LAMBDA b : b.worldZ > despawnZ)]
    /\ UNCHANGED <<bmPc, bmRandom>>
    /\ UNCHANGED notBuilding

\* the positions initializeArea is called with
BmStartZs == {0, 9}

\* the positions update is called with
BmPlayerZs == {0, -13, -20, -280}

InitializeAreaAny == \E startZ \in BmStartZs : InitializeArea(startZ)

BmUpdateAny == \E playerZ \in BmPlayerZs : BmUpdate(playerZ)

BuildingManagerNext == BmInit \/ InitializeAreaAny \/ BmUpdateAny
(***************************************************************************)
(* Specifications: one per program object, the others left untouched.     *)
(***************************************************************************)
\* a viewer nothing is done with
ViewerOff ==
    ViewerInitWith({CHOOSE t \in TemplateSets :
                      \A n \in RoadNames : t[n].hasSocket})

\* a low-poly viewer nothing is done with
LowpolyOff ==
    /\ LowpolyInit
    /\ \A n \in RoadNames : lpTpl[n].hasSocket

\* a spine-and-branch generator nothing is done with
System3Off ==
    /\ System3Init
    /\ S3Complete(s3Tpl)

\* a pool nothing is done with
PoolOff ==
    /\ available = <<>>
    /\ inUse = <<>>
    /\ hasResetFn = FALSE
    /\ hookThrows = FALSE
    /\ created = 0
    /\ resetCalls = [o \in PoolObjects |-> 0]
    /\ disposeCalls = [o \in PoolObjects |-> 0]
    /\ freedAt = [o \in PoolObjects |-> 0]
    /\ pushes = 0
    /\ ops = 0
    /\ last = NoOp

\* a generateRoad of lowpoly.js nothing is done with
GenerateOff ==
    /\ GenerateInit
    /\ \A n \in RoadNames : grTpl[n].hasSocket
    /\ roadTemplates = RoadNames

\* a road network generator nothing is done with
System2Off ==
    /\ System2Init
    /\ S3Complete(s2Tpl)

\* a road manager that was constructed and nothing else
RoadManagerOff ==
    /\ RoadManagerInit
    /\ rmTemplates = PlaceholderTemplates

\* a building manager that was constructed and nothing else
BuildingOff ==
    /\ BuildingManagerInit
    /\ bmRandom = [k \in 1..PatternLen |-> 0]

\* no call of the viewer is suspended and none has returned
AsyncOff ==
    /\ pending = <<>>
    /\ completed = <<>>

\* the pool with a reset hook that returns normally
InitPool ==
    PoolInit({FALSE}) /\ ViewerOff /\ LowpolyOff /\ System3Off /\ GenerateOff
      /\ AsyncOff /\ System2Off
      /\ RoadManagerOff /\ BuildingOff

SpecPool == InitPool /\ [][PoolNext]_vars

\* the pool with any reset hook, one that throws included
InitPoolThrowing ==
    PoolInit(BOOLEAN) /\ ViewerOff /\ LowpolyOff /\ System3Off /\ GenerateOff
      /\ AsyncOff /\ System2Off
      /\ RoadManagerOff /\ BuildingOff

SpecPoolThrowing == InitPoolThrowing /\ [][PoolNext]_vars

\* the asset viewer of main.js, for every template set
InitViewer ==
    ViewerInitWith(TemplateSets) /\ PoolOff /\ LowpolyOff /\ System3Off
      /\ GenerateOff /\ AsyncOff /\ System2Off
      /\ RoadManagerOff /\ BuildingOff

SpecViewer == InitViewer /\ [][ViewerNext]_vars

\* generateRoad(20) on a fresh viewer whose road templates all have their
\* exit socket
InitScenario == InitViewer /\ \A n \in RoadNames : tpl[n].hasSocket

SpecScenario == InitScenario /\ [][ScenarioNext]_vars

\* the infinite road of main.js on a long drive
SpecStream == InitViewer /\ [][StreamNext]_vars

\* the infinite road of main.js on a slow drive, the road templates all
\* having their exit socket
SpecCrawl == InitScenario /\ [][CrawlNext]_vars

\* spawnProceduralRoadSystem1 of lowpoly.js, for every template set
InitLowpoly ==
    LowpolyInit /\ PoolOff /\ ViewerOff /\ System3Off /\ GenerateOff
      /\ AsyncOff /\ System2Off
      /\ RoadManagerOff /\ BuildingOff

SpecLowpoly == InitLowpoly /\ [][LowpolyNext]_vars


\* spawnSpineAndBranchSystem3 of lowpoly.js, for every template set
InitSystem3 ==
    System3Init /\ PoolOff /\ ViewerOff /\ LowpolyOff /\ GenerateOff
      /\ AsyncOff /\ System2Off
      /\ RoadManagerOff /\ BuildingOff

SpecSystem3 == InitSystem3 /\ [][System3Next]_vars

\* generateRoad of lowpoly.js, for every template set
InitGenerate ==
    GenerateInit /\ PoolOff /\ ViewerOff /\ LowpolyOff /\ System3Off
      /\ AsyncOff /\ System2Off
      /\ RoadManagerOff /\ BuildingOff

SpecGenerate == InitGenerate /\ [][GenerateNext]_vars

\* calls of initInfiniteRoad and generateRoad that overlap at their awaits,
\* on a fresh viewer whose road templates all have their exit socket
SpecAsync == InitScenario /\ [][AsyncNext]_vars

\* spawnRoadNetworkSystem2 of lowpoly.js, for every template set
InitSystem2 ==
    System2Init /\ PoolOff /\ ViewerOff /\ LowpolyOff /\ System3Off
      /\ GenerateOff /\ AsyncOff /\ RoadManagerOff /\ BuildingOff

SpecSystem2 == InitSystem2 /\ [][System2Next]_vars

\* the road manager: init(), then update(playerPosition) calls
InitRoadManager ==
    RoadManagerInit /\ PoolOff /\ ViewerOff /\ LowpolyOff /\ System3Off
      /\ GenerateOff /\ AsyncOff /\ System2Off /\ BuildingOff

SpecRoadManager == InitRoadManager /\ [][RoadManagerNext]_vars

\* BuildingManager, for every pattern of Math.random()
InitBuilding ==
    /\ BuildingManagerInit /\ bmRandom \in RandomPatterns
    /\ PoolOff /\ ViewerOff /\ LowpolyOff /\ System3Off /\ GenerateOff
    /\ AsyncOff /\ System2Off /\ RoadManagerOff

SpecBuilding == InitBuilding /\ [][BuildingManagerNext]_vars
(***************************************************************************)
(* Properties of the ObjectPool.                                           *)
(***************************************************************************)
\* number of occurrences of x in s
Count(s, x) == Cardinality({i \in 1..Len(s) : s[i] = x})

\* objects a dispose() has torn down
Disposed == {o \in 1..created : disposeCalls[o] > 0}

\* the object of the free list that was pushed on it last
MostRecentlyFreed ==
    CHOOSE o \in Range(available) :
      \A p \in Range(available) : freedAt[p] <= freedAt[o]

\* C1 (pool conservation): available + inUse is the number of objects the
\* factory has created (less those a dispose() has torn down), and
\* stats.total is lowered by no operation but dispose().
C1_PoolConservation ==
    /\ [](Stats.available + Stats.inUse = created - Cardinality(Disposed))
    /\ [][Stats.total' < Stats.total => last'.op = "dispose"]_vars

C1_Witness ==
    /\ last.op = "release"
    /\ last.warned
    /\ last.arg \in Range(available)
    /\ Len(inUse) > 0
    /\ created >= 2
    /\ Disposed = {}

\* C2 (pool exclusivity): every created object that was not disposed is in
\* exactly one of the free list and the in-use set, and occurs there once.
C2_PoolExclusivity ==
    /\ Range(available) \cap Range(inUse) = {}
    /\ \A o \in Range(available) : Count(available, o) = 1
    /\ \A o \in Range(inUse) : Count(inUse, o) = 1
    /\ Range(available) \cup Range(inUse) = (1..created) \ Disposed

C2_Witness ==
    /\ last.op = "acquire"
    /\ last.reused
    /\ Len(available) >= 1
    /\ Len(inUse) >= 2
    /\ Disposed = {}

\* C3 (release guard): release(x) of an object that is not in use does not
\* throw, does not call the reset hook and changes neither the free list
\* nor the in-use set; after any release(x) the object x is at most once
\* in the free list.
C3_ReleaseNotInUseIsNoOp ==
    /\ [][(last'.op = "release" /\ ~InUseHas(last'.arg))
            => /\ available' = available
               /\ inUse' = inUse
               /\ resetCalls' = resetCalls
               /\ last'.hookRuns = 0
               /\ ~last'.threw]_vars
    /\ [](last.op = "release" => Count(available, last.arg) <= 1)
    /\ []((last.op = "release" /\ ~last.warned)
            => (Count(available, last.arg) = 1 /\ ~InUseHas(last.arg)))

C3_Witness ==
    /\ last.op = "release"
    /\ last.warned
    /\ hasResetFn
    /\ Count(available, last.arg) = 1
    /\ freedAt[last.arg] = pushes
    /\ resetCalls[last.arg] = 1

\* C4 (LIFO reuse): acquire() on a non-empty free list returns the object
\* pushed on it last and does not call the factory; on an empty free list
\* it calls the factory once; the returned object is in use afterwards.
C4_AcquireLifo ==
    [][last'.op = "acquire"
        => /\ IF Len(available) > 0
                THEN /\ last'.ret = MostRecentlyFreed
                     /\ last'.reused
                     /\ created' = created
                     /\ Range(available') = Range(available) \ {last'.ret}
                ELSE /\ created' = created + 1
                     /\ last'.ret = created'
                     /\ ~last'.reused
           /\ last'.ret \in Range(inUse')]_vars

\* acquire x3 on an empty pool, release 1, release 2, acquire: returns 2
C4_Witness ==
    /\ last.op = "acquire"
    /\ last.reused
    /\ last.ret = 2
    /\ available = <<1>>
    /\ inUse = <<3, 2>>
    /\ Stats.total = 3
    /\ ops = 6

\* C5 (dispose): dispose() runs the hook once on every object of the free
\* list and of the in-use set and on no other, and leaves both empty; no
\* object is ever disposed twice, so a dispose() of the empty pool runs the
\* hook zero times.
C5_DisposeFreesAll ==
    /\ [][last'.op = "dispose"
            => /\ \A o \in PoolObjects :
                    disposeCalls'[o] = disposeCalls[o]
                      + (IF o \in Range(available) \cup Range(inUse)
                           THEN 1 ELSE 0)
               /\ last'.hookRuns = Len(available) + Len(inUse)
               /\ Stats' = [available |-> 0, inUse |-> 0, total |-> 0]
               /\ ~last'.threw]_vars
    /\ [](\A o \in PoolObjects : disposeCalls[o] <= 1)

\* a second dispose() in a row, of a pool that had objects
C5_Witness ==
    /\ last.op = "dispose"
    /\ last.hookRuns = 0
    /\ Cardinality(Disposed) >= 2
    /\ Disposed = 1..created

\* C6 (releaseAll): releaseAll() empties the in-use set, pushes every
\* object that was in use once on the free list, runs the reset hook (when
\* there is one) once on each of them and on no other object, keeps the
\* objects that were free where they were and keeps stats.total.
C6_ReleaseAllBulk ==
    [][last'.op = "releaseAll"
        => /\ inUse' = <<>>
           /\ \A o \in Range(inUse) : Count(available', o) = 1
           /\ \A o \in PoolObjects :
                resetCalls'[o] = resetCalls[o]
                  + (IF hasResetFn /\ o \in Range(inUse) THEN 1 ELSE 0)
           /\ SubSeq(available', 1, Len(available)) = available
           /\ Len(available') = Len(available) + Len(inUse)
           /\ Stats.total' = Stats.total]_vars

C6_Witness ==
    /\ last.op = "releaseAll"
    /\ last.hookRuns = 2
    /\ Len(available) = 3
    /\ freedAt[available[1]] <= pushes - 2


\* C30: after a release(obj) or releaseAll() in which the reset hook threw,
\* on a pool that was never disposed, every object created is in the free
\* list or the in-use set, once: available + inUse is the number created.
C30_SurvivesThrow ==
    (last.threw /\ \A o \in PoolObjects : disposeCalls[o] = 0) =>
       /\ Len(available) + Len(inUse) = created
       /\ \A o \in 1..created :
            Cardinality({i \in 1..Len(available \o inUse) :
                           (available \o inUse)[i] = o}) = 1
(***************************************************************************)
(* Properties of the road generators.                                      *)
(***************************************************************************)
\* piece i of the chain starts where piece i - 1 ends: piece i - 1 has an
\* exit socket and the origin of piece i is that socket's world position
Connected(pieces, i) ==
    /\ FindSocketOut(pieces[i - 1])
    /\ pieces[i].pos = SocketWorldPos(tpl[pieces[i - 1].name], pieces[i - 1],
                                      ViewerScale)

\* C7: connectivity.  In the committed chain of main.js (roadPieces, as
\* appended to by generateRoad's trySpawnRoad and by spawnNextSegment, and
\* as shortened by removeOldestSegment), every piece but the first has its
\* origin at the socket_out of the piece before it.
C7_Connectivity ==
    \A i \in 2..Len(roadPieces) : Connected(roadPieces, i)

\* the chain in roadPieces was built by generateRoad (the infinite road
\* keeps its pieces in activeSegments as well)
ChainOfGenerateRoad == Len(activeSegments) = 0

\* C8: no illegal overlap.  In a chain built by generateRoad, two pieces
\* whose placement indices differ by more than the tolerance window 2
\* share no grid cell.
C8_NoIllegalOverlap ==
    ChainOfGenerateRoad =>
      \A i, j \in 1..Len(roadPieces) :
        j - i > RecentCount =>
          SampleRoadCells(roadPieces[i]) \cap SampleRoadCells(roadPieces[j]) = {}

\* the cells sampled for the pieces that are in roadPieces
CellsOfRoadPieces ==
    UNION {SampleRoadCells(roadPieces[i]) : i \in 1..Len(roadPieces)}

\* C9: grid/segment consistency.  In every reachable state of main.js a
\* cell is in occupiedCells if and only if it is a sampled cell of a piece
\* that is in roadPieces.
C9_GridSegmentConsistency == occupiedCells = CellsOfRoadPieces

LpIsCurve(piece) == ROAD_TYPES[piece.name] = "curve"

\* the curves of the chain of spawnProceduralRoadSystem1, in commit order
LpCurves == SelectSeq(lpPieces, LAMBDA p : ROAD_TYPES[p.name] = "curve")

\* C10: direction-rule compliance.  In the chain committed by
\* spawnProceduralRoadSystem1 no three successive curves (straights in
\* between not counted) turn the same way, and every curve comes directly
\* after a straight.
C10_DirectionRules ==
    /\ \A k \in 1..(Len(LpCurves) - MAX_SAME_DIR_CURVES) :
         \E m \in 1..MAX_SAME_DIR_CURVES :
           LpCurves[k + m].mirror # LpCurves[k].mirror
    /\ \A i \in 1..Len(lpPieces) :
         LpIsCurve(lpPieces[i]) =>
           /\ i > MIN_STRAIGHTS_AFTER_CURVE
           /\ \A m \in 1..MIN_STRAIGHTS_AFTER_CURVE :
                ~LpIsCurve(lpPieces[i - m])

\* a finished chain in which two curves to the same side are followed, one
\* straight later, by a curve to the other side: the third curve was
\* offered at a step where the cap held back its mirror image
C10_Witness ==
    /\ lpPc = "done"
    /\ Len(LpCurves) = 3
    /\ LpCurves[1].mirror = LpCurves[2].mirror
    /\ LpCurves[3].mirror # LpCurves[2].mirror
    /\ LpIsCurve(Last(lpPieces))
    /\ ~LpIsCurve(lpPieces[Len(lpPieces) - 1])

\* the span of the shortest road piece
ShortestSpan == -TemplateGeometry["road_short"].off[2]

\* the pieces that fit between the car and the spawn-ahead distance, and
\* the one the car is on
SteadyBound == SpawnAheadDistance \div ShortestSpan + 1

\* C11: streaming steady state.  On the infinite road, over any number of
\* frames, activeSegments, roadPieces and segmentPaths never hold more than
\* SteadyBound entries.
C11_SteadyState ==
    /\ Len(activeSegments) <= SteadyBound
    /\ Len(roadPieces) <= SteadyBound
    /\ Len(segmentPaths) <= SteadyBound

\* the spans of the pieces of a chain, summed
RECURSIVE SumSpans(_)
SumSpans(pieces) ==
    IF pieces = <<>>
      THEN 0
      ELSE -TemplateGeometry[Head(pieces).name].off[2] + SumSpans(Tail(pieces))

\* where the chain in roadPieces ends
Frontier == GetSocketTransform(Last(roadPieces)).position

\* C12: generateRoad(20) on an empty road with road_long and road_short
\* commits a piece in each of its 20 steps without rejecting a candidate,
\* and the road it leaves has 20 pieces and ends straight ahead of the
\* origin (along -Z) at the sum of the spans of its pieces.
C12_TwentyStraights ==
    /\ evt.op = "generateStep" => evt.rejected = 0 /\ evt.committed = 1
    /\ (evt.op = "generateStep" /\ ~gen.on) =>
         /\ Len(roadPieces) = DefaultTargetCount
         /\ Frontier = <<0, -SumSpans(roadPieces)>>

\* the finished road of 20 pieces, with pieces of both kinds
C12_Witness ==
    /\ evt.op = "generateStep"
    /\ ~gen.on
    /\ Len(roadPieces) = DefaultTargetCount
    /\ \E i, j \in 1..Len(roadPieces) :
         roadPieces[i].name = "road_long" /\ roadPieces[j].name = "road_short"
    /\ Cardinality(occupiedCells) > DefaultTargetCount


\* C16: generateRoad commits no piece after a piece that has no exit
\* socket: whenever an iteration of its loop has committed a piece onto a
\* non-empty road, the piece before it has a socket_out.
C16_StopAtSocketless ==
    (evt.op = "generateStep" /\ evt.committed = 1 /\ Len(roadPieces) >= 2) =>
       FindSocketOut(roadPieces[Len(roadPieces) - 1])

\* the candidate c, placed after the road so far, has a sampled cell that
\* is occupied and not one of the recent cells
C17_Collides(c) ==
    \E cell \in SampleCenterline(LpPiece(c, lpPieces)) :
       cell \in lpOccupied /\ cell \notin UNION Range(lpRecent)

\* the candidates of the iteration that can be committed
C17_Placeable ==
    {c \in FilterByRules(LpCandidates(lpI), lpDir) :
       c.key \in lpLoaded /\ ~C17_Collides(c)}

C18_FullTeardown ==
    evt.op = "clearRoad" =>
       /\ roadPieces = <<>>
       /\ segmentPaths = <<>>
       /\ occupiedCells = {}
       /\ activeSegments = <<>>
       /\ lastCurveDir = 0
       /\ sameDirCount = 0
       /\ straightsSinceCurve = 99
       /\ currentSegmentIndex = 0
       /\ currentPathT = 0
       /\ \A n \in RoadNames : assetInstances[n] = {}
(***************************************************************************)
(* Properties of spawnSpineAndBranchSystem3.                               *)
(***************************************************************************)
\* the positions in roadPieces of the pieces of chain c (0: the spine)
ChainOf(c) == {k \in 1..Len(s3Pieces) : s3Pieces[k].chain = c}

\* the positions in roadPieces of the junctions of the spine
Junctions == {k \in ChainOf(0) : s3Pieces[k].type = "RoadX"}

\* both files load and every socket is there
FullTemplates == S3Complete(s3Tpl)

\* Road1 and RoadX load and have a socket_out
SpineCanExtend ==
    \A n \in S3Names : s3Tpl[n].loads /\ "socket_out" \in s3Tpl[n].sockets

\* C13: in spawnSpineAndBranchSystem3 a junction never sits at spine index
\* 0 or 19; no branch is walked while the spine loop runs and none is
\* walked twice; when the run is over every queued branch was walked once
\* and is a chain of exactly 5 Road1 pieces, junctions with both side
\* sockets have queued exactly 2 branches each, and roadPieces holds the
\* spine plus 5 pieces per branch; the spine has 20 pieces when Road1 and
\* RoadX both load and have a socket_out, which with M two-sided junctions
\* gives 20 + 10 * M pieces.
C13_SpineAndBranches ==
    /\ \A k \in Junctions : k - 1 \notin {0, SPINE_LENGTH - 1}
    /\ ChainOf(0) = 1..Cardinality(ChainOf(0))
    /\ \A b \in 1..Len(walked) : walked[b] <= 1
    /\ s3Pc = "spine" =>
          /\ \A b \in 1..Len(walked) : walked[b] = 0
          /\ ChainOf(0) = 1..Len(s3Pieces)
    /\ s3Pc = "done" =>
          /\ Len(walked) = Len(branches)
          /\ \A b \in 1..Len(branches) :
                /\ walked[b] = 1
                /\ Cardinality(ChainOf(b)) = BranchLength
                /\ \A k \in ChainOf(b) : s3Pieces[k].type = "Road1"
          /\ ("socket_left" \in s3Tpl["RoadX"].sockets
                /\ "socket_right" \in s3Tpl["RoadX"].sockets)
               => Len(branches) = 2 * Cardinality(Junctions)
          /\ Len(s3Pieces)
               = Cardinality(ChainOf(0)) + BranchLength * Len(branches)
          /\ SpineCanExtend => Cardinality(ChainOf(0)) = SPINE_LENGTH
          /\ FullTemplates =>
               Len(s3Pieces) = SPINE_LENGTH
                                 + 2 * BranchLength * Cardinality(Junctions)

\* a finished run with a junction, both of its branches walked
C13_Witness ==
    /\ s3Pc = "done"
    /\ FullTemplates
    /\ Cardinality(Junctions) >= 1
    /\ Len(branches) = 2 * Cardinality(Junctions)
    /\ \A b \in 1..Len(branches) : walked[b] = 1
    /\ Len(s3Pieces) = SPINE_LENGTH + 2 * BranchLength * Cardinality(Junctions)

\* C13 as stated: every finished run has a spine of 20 pieces and, with M
\* two-sided junctions, 20 + 10 * M pieces in roadPieces
C13_AsStated ==
    (s3Pc = "done"
       /\ \A k \in Junctions :
             {"socket_left", "socket_right"} \subseteq s3Tpl["RoadX"].sockets)
      => /\ Cardinality(ChainOf(0)) = SPINE_LENGTH
         /\ Len(s3Pieces) = SPINE_LENGTH
                              + 2 * BranchLength * Cardinality(Junctions)


\* the piece types of the spine in a roadPieces list
SpineTypes(pieces) ==
    LET spine == {k \in 1..Len(pieces) : pieces[k].chain = 0}
    IN  [k \in 1..Cardinality(spine) |-> pieces[k].type]

\* C22: every run of spawnSpineAndBranchSystem3 starts its PRNG from the
\* seed 12345 and calls it once at each spine index from 1 to 18 that the
\* spine loop reaches, in order, and never at index 0 or 19; a second run
\* with the same templates ends with the same spine type sequence and the
\* same list of queued branches as the run before it.
C22_Deterministic ==
    /\ draws = <<>> => seedState = <<0, SEED>>
    /\ draws = [k \in 1..Len(draws) |-> k]
    /\ \A k \in 1..Len(draws) : draws[k] \notin {0, SPINE_LENGTH - 1}
    /\ s3Pc = "spine" =>
          Len(draws) = Max(0, Min(s3I - 1, SPINE_LENGTH - 2))
    /\ (s3Pc = "done" /\ SpineCanExtend) =>
          draws = [k \in 1..SPINE_LENGTH - 2 |-> k]
    /\ (s3Pc = "done" /\ s3Runs >= 2) =>
          /\ SpineTypes(s3Pieces) = SpineTypes(s3Trace.pieces)
          /\ branches = s3Trace.branches
          /\ draws = s3Trace.draws
          /\ s3Pieces = s3Trace.pieces

\* a second run is over; like the first it drew at the 18 inner spine
\* indices and queued the branches of a junction
C22_Witness ==
    /\ s3Pc = "done"
    /\ s3Runs = 2
    /\ Len(draws) = SPINE_LENGTH - 2
    /\ Cardinality(Junctions) >= 1
    /\ s3Trace.branches # <<>>
    /\ branches = s3Trace.branches

(***************************************************************************)
(* Properties of spawnRoadNetworkSystem2.                                  *)
(***************************************************************************)
\* C27: a run of spawnRoadNetworkSystem2 with count >= 2, both templates
\* loaded and each with its exit socket, ends with more than the first
\* piece in roadPieces.
C27_Grows ==
    (/\ s2Pc = "done"
     /\ s2Count >= 2
     /\ s2Templates = S3Names
     /\ \A n \in S3Names : "socket_out" \in s2Tpl[n].sockets)
      => Len(s2Pieces) > 1
(***************************************************************************)
(* Properties of the per-frame growth and cleanup of the infinite road.    *)
(***************************************************************************)
\* the step is a frame of animate()
IsTick == evt'.op = "tick"

\* the car, where updateCar has put it in this frame, is closer than
\* spawnAheadDistance to the exit the code resolves for the last segment
BelowSpawnAhead ==
    /\ car'.present
    /\ activeSegments # <<>>
    /\ Dist2(car'.pos, GetSocketTransform(Last(activeSegments).road).position)
         < SpawnAheadDistance * SpawnAheadDistance

\* s without its first k elements
DropFirst(s, k) == SubSeq(s, k + 1, Len(s))

\* C14: a frame with infinite road enabled appends exactly one new segment
\* to activeSegments when a car is present, there is an active segment and
\* the car is closer than spawnAheadDistance to the exit of the last
\* segment; in every other frame nothing is appended.
C14_Grow ==
    [][IsTick /\ infiniteRoadEnabled =>
         IF BelowSpawnAhead
         THEN /\ nextId' = nextId + 1
              /\ activeSegments' # <<>>
              /\ Last(activeSegments').road.id = nextId'
              /\ Front(activeSegments')
                   = DropFirst(activeSegments, evt'.removed)
         ELSE /\ nextId' = nextId
              /\ activeSegments' = DropFirst(activeSegments, evt'.removed)]_vars

\* a frame has just appended a segment, and the car is now too far from the
\* new road end for the next frame to append another
C14_Witness ==
    /\ evt.op = "tick"
    /\ evt.spawned = 1
    /\ infiniteRoadEnabled
    /\ car.present
    /\ Len(activeSegments) > MinSegments
    /\ Dist2(car.pos, GetSocketTransform(Last(activeSegments).road).position)
         > SpawnAheadDistance * SpawnAheadDistance

\* C15: after a frame's cleanup pass, with infinite road enabled and a car
\* present, activeSegments does not both hold more than the minimum
\* segment count and have its oldest segment farther than
\* despawnBehindDistance from the car.
C15_Shrink ==
    (evt.op = "tick" /\ infiniteRoadEnabled /\ car.present) =>
       ~(/\ Len(activeSegments) > MinSegments
         /\ Dist2(car.pos, Head(activeSegments).road.pos)
              > DespawnBehindDistance * DespawnBehindDistance)


\* the segment index updateCar leaves in this frame, before the cleanup pass
IndexAfterUpdateCar ==
    IF ~isCarMoving \/ Len(segmentPaths) = 0
         \/ currentSegmentIndex + 1 > Len(segmentPaths)
      THEN currentSegmentIndex
      ELSE IF currentPathT' # 0
             THEN currentSegmentIndex
             ELSE IF currentSegmentIndex + 1 >= Len(segmentPaths)
                    THEN 0
                    ELSE currentSegmentIndex + 1

\* C21: a frame's cleanup pass retires at most one segment, the one at
\* index 0, and only when the car's segment index is above 0; the index is
\* then lowered by exactly one, stays at least 0 and below
\* segmentPaths.length, and still denotes the path and the segment the car
\* was on.
C21_KeepCurrent ==
    [][IsTick /\ evt'.removed > 0 =>
         /\ evt'.removed = 1
         /\ IndexAfterUpdateCar > 0
         /\ Head(activeSegments).road.id \notin Ids(roadPieces')
         /\ \A k \in 1..Len(activeSegments') :
              activeSegments'[k].road.id # Head(activeSegments).road.id
         /\ currentSegmentIndex' = IndexAfterUpdateCar - 1
         /\ currentSegmentIndex' >= 0
         /\ currentSegmentIndex' < Len(segmentPaths')
         /\ segmentPaths'[currentSegmentIndex' + 1]
              = segmentPaths[IndexAfterUpdateCar + 1]
         /\ activeSegments'[currentSegmentIndex' + 1]
              = activeSegments[IndexAfterUpdateCar + 1]]_vars

\* a frame has just retired the oldest segment while the car was on a
\* later one
C21_Witness ==
    /\ evt.op = "tick"
    /\ evt.removed = 1
    /\ isCarMoving
    /\ Len(activeSegments) >= MinSegments
    /\ currentSegmentIndex < Len(segmentPaths)

\* C24: a frame's cleanup pass retires nothing when activeSegments, after
\* the frame's spawning, holds at most the minimum segment count, and never
\* leaves fewer than that minimum; a road of at least the minimum count
\* keeps at least that many segments over every frame.
C24_MinimumKept ==
    [][IsTick =>
         /\ Len(activeSegments) + evt'.spawned <= MinSegments
              => /\ evt'.removed = 0
                 /\ Len(activeSegments') = Len(activeSegments) + evt'.spawned
         /\ evt'.removed > 0 => Len(activeSegments') >= MinSegments
         /\ Len(activeSegments) >= MinSegments
              => Len(activeSegments') >= MinSegments]_vars

\* a frame has just retired a segment and left exactly the minimum count
C24_Witness ==
    /\ evt.op = "tick"
    /\ evt.removed = 1
    /\ infiniteRoadEnabled
    /\ Len(activeSegments) = MinSegments

\* activeSegments, roadPieces and segmentPaths have the same length, and
\* at every index hold a segment, its road and the path of that road
Aligned ==
    /\ Len(roadPieces) = Len(activeSegments)
    /\ Len(segmentPaths) = Len(activeSegments)
    /\ \A i \in 1..Len(activeSegments) :
         /\ roadPieces[i] = activeSegments[i].road
         /\ segmentPaths[i] = activeSegments[i].path
         /\ segmentPaths[i] = ExtractCarPath(roadPieces[i])

\* C25: on the infinite road activeSegments, roadPieces and segmentPaths
\* have the same length and correspond index by index, and a frame that
\* retires a segment takes the first element off all three.
C25_Aligned ==
    /\ []Aligned
    /\ [][IsTick /\ evt'.removed = 1 =>
            /\ Len(activeSegments') = Len(activeSegments) + evt'.spawned - 1
            /\ \A i \in 1..Len(activeSegments) - 1 :
                 /\ activeSegments'[i] = activeSegments[i + 1]
                 /\ roadPieces'[i] = roadPieces[i + 1]
                 /\ segmentPaths'[i] = segmentPaths[i + 1]]_vars

\* a frame has just appended one segment and retired another, on a road
\* of more than the minimum count
C25_Witness ==
    /\ evt.op = "tick"
    /\ evt.spawned = 1
    /\ evt.removed = 1
    /\ Len(activeSegments) > MinSegments
    /\ Len(roadPieces) = Len(activeSegments)

\* C23: when a call of initInfiniteRoad(n) returns and no call is left
\* suspended, activeSegments holds exactly n segments.
C23_ExactlyN ==
    (/\ pending = <<>>
     /\ completed # <<>>
     /\ evt.op = "initInfiniteRoad")
      => Len(activeSegments) = Last(completed).count
(***************************************************************************)
(* Properties of generateRoad and trySpawnRoadPiece of lowpoly.js.         *)
(***************************************************************************)
\* the step is an iteration of generateRoad's loop
IsGenerateStep == grPc = "loop" /\ grEvt'.op = "step"

\* the clone of name n placed at the current transform
Candidate(n) ==
    [id |-> Len(grPieces) + 1, name |-> n, pos |-> grCur.position,
     rot |-> grCur.quaternion, mirror |-> FALSE]

\* the cells of the last two committed pieces
LastTwoCells ==
    UNION {GrSampleRoadCells(grPieces[i]) :
             i \in {j \in 1..Len(grPieces) : j > Len(grPieces) - 2}}

\* a sampled cell of the candidate is occupied and is not a cell of the
\* last two committed pieces
Collides(n) ==
    \E c \in GrSampleRoadCells(Candidate(n)) :
       c \in grOccupied /\ c \notin LastTwoCells

\* the names the iteration tried and trySpawnRoadPiece rejected
Rejected ==
    {grEvt'.tried[k] :
       k \in 1..(Len(grEvt'.tried) - (IF grEvt'.placed THEN 1 ELSE 0))}

\* the piece, its cells and its scene entry are committed for name n
Committed(n) ==
    /\ Len(grPieces') = Len(grPieces) + 1
    /\ SubSeq(grPieces', 1, Len(grPieces)) = grPieces
    /\ Last(grPieces').name = n
    /\ Last(grPieces').pos = grCur.position
    /\ Last(grPieces').rot = grCur.quaternion
    /\ grOccupied' = grOccupied \cup GrSampleRoadCells(Candidate(n))
    /\ grScene' = grScene \cup {Last(grPieces').id}

\* C19: trySpawnRoadPiece rejects a candidate whose template is loaded if
\* and only if one of its sampled cells is occupied and is not a cell of
\* the last two committed pieces (a candidate without a template is
\* rejected unseen); a rejection leaves occupiedCells, roadPieces and the
\* scene unchanged; an acceptance adds exactly the candidate's sampled
\* cells to occupiedCells and appends the piece to roadPieces.
C19_CollisionAdjudication ==
    [][IsGenerateStep =>
         /\ \A n \in Rejected : n \in roadTemplates => Collides(n)
         /\ IF grEvt'.placed
            THEN /\ Last(grEvt'.tried) \in roadTemplates
                 /\ ~Collides(Last(grEvt'.tried))
                 /\ Committed(Last(grEvt'.tried))
            ELSE /\ Rejected = grEvt'.options
                 /\ grPieces' = grPieces
                 /\ grOccupied' = grOccupied
                 /\ grScene' = grScene]_vars

\* an iteration rejected a candidate for a collision and then committed
\* another one
C19_Witness ==
    /\ grEvt.op = "step"
    /\ grEvt.placed
    /\ Len(grEvt.tried) > 1
    /\ roadTemplates = RoadNames
    /\ Len(grPieces) > RecentCount

\* C19 as stated: a candidate is rejected if and only if one of its
\* sampled cells is occupied and is not a cell of the last two committed
\* pieces
C19_AsStated ==
    [][IsGenerateStep =>
         /\ \A n \in Rejected : Collides(n)
         /\ grEvt'.placed => ~Collides(Last(grEvt'.tried))]_vars

\* C20: generateRoad(count) of lowpoly.js does at most count iterations
\* (every iteration advances i, which never exceeds count, and the run is
\* over when i reaches count); an iteration that follows a failed one is
\* offered the straight types only; consecutiveFailures counts the failed
\* iterations since the last commit and the run is over as soon as it
\* reaches 5; the committed count never exceeds count.
C20_BoundedDegradation ==
    /\ [](/\ grI <= grCount
          /\ Len(grPieces) <= grI
          /\ consecutiveFailures <= MaxFailures
          /\ grPc = "loop" => grI < grCount /\ consecutiveFailures < MaxFailures
          /\ (grPc = "done" /\ consecutiveFailures < MaxFailures)
               => grI = grCount)
    /\ [][IsGenerateStep =>
            /\ grI' = grI + 1
            /\ consecutiveFailures > 0 =>
                  /\ grEvt'.options = StraightNames
                  /\ Range(grEvt'.tried) \subseteq StraightNames
            /\ consecutiveFailures = 0 => grEvt'.options = RoadNames
            /\ consecutiveFailures' =
                 IF Len(grPieces') > Len(grPieces) THEN 0
                 ELSE consecutiveFailures + 1
            /\ (consecutiveFailures' = MaxFailures \/ grI' = grCount)
                 <=> grPc' = "done"]_vars

\* a run that gave up: five failed iterations in a row after some pieces
\* were committed, before count iterations were done
C20_Witness ==
    /\ grPc = "done"
    /\ consecutiveFailures = MaxFailures
    /\ Len(grPieces) > 0
    /\ grI < grCount
    /\ roadTemplates = RoadNames

\* C26: in generateRoad of lowpoly.js a failed iteration leaves the
\* frontier, occupiedCells and roadPieces unchanged, the iteration after a
\* failed one tries only candidates the failed one rejected and fails too,
\* so every failed iteration of a run comes after its last commit and the
\* committed count is the iteration count less the trailing failures.
C26_NoCommitAfterFailure ==
    /\ [](Len(grPieces) + consecutiveFailures = grI)
    /\ [][IsGenerateStep =>
            /\ ~grEvt'.placed =>
                  /\ grCur' = grCur
                  /\ grOccupied' = grOccupied
                  /\ grPieces' = grPieces
            /\ consecutiveFailures > 0 =>
                  /\ ~grEvt'.placed
                  /\ grEvt.op = "step"
                  /\ Range(grEvt'.tried) \subseteq Range(grEvt.tried)
                  /\ consecutiveFailures' = consecutiveFailures + 1
                  /\ Len(grPieces') = Len(grPieces)]_vars

\* a run whose last iterations all failed after pieces were committed: it
\* is over with the pieces it had at the first failure
C26_Witness ==
    /\ grPc = "done"
    /\ grEvt.op = "step"
    /\ ~grEvt.placed
    /\ grEvt.options = StraightNames
    /\ consecutiveFailures > 1
    /\ Len(grPieces) > 0
    /\ Len(grPieces) + consecutiveFailures = grI
(***************************************************************************)
(* Properties of RoadManager.                                              *)
(***************************************************************************)
\* the segment objects in activeSegments
ActiveObjects == {rmActive[k].obj : k \in 1..Len(rmActive)}

\* the sum of inUse over the segment pools
RECURSIVE SumInUse(_)
SumInUse(types) ==
    IF types = {} THEN 0
    ELSE LET t == CHOOSE x \in types : TRUE
         IN  Len(rmPools[t].inUse) + SumInUse(types \ {t})

\* C28: after init() and any update(playerPosition) calls, every segment of
\* activeSegments is in the in-use set of the pool of its type, none is in
\* activeSegments twice, the in-use counts of the pools add up to
\* activeSegments.length, and every segment an update recycles is released
\* to the pool of its type.
C28_PoolConsistency ==
    /\ [](/\ \A k \in 1..Len(rmActive) :
               /\ rmActive[k].obj[1] \in DOMAIN rmPools
               /\ rmActive[k].obj \in Range(rmPools[rmActive[k].obj[1]].inUse)
          /\ Cardinality(ActiveObjects) = Len(rmActive)
          /\ SumInUse(DOMAIN rmPools) = Len(rmActive))
    /\ [][rmEvt'.op = "update" =>
            \A k \in 1..Len(rmEvt'.recycled) :
               LET obj == rmEvt'.recycled[k]
               IN  /\ obj \in ActiveObjects
                   /\ obj \in Range(rmPools[obj[1]].inUse)
                   /\ obj \in Range(rmPools'[obj[1]].available)
                        \/ obj \in ActiveObjects']_vars

\* an update has recycled a curved segment and taken segments from the
\* pools again
C28_Witness ==
    /\ rmEvt.op = "update"
    /\ rmEvt.added > 0
    /\ \E k \in 1..Len(rmEvt.recycled) : rmEvt.recycled[k][1] # "straight"
    /\ SumInUse(DOMAIN rmPools) = Len(rmActive)
    /\ Len(rmActive) >= SegmentsAhead
(***************************************************************************)
(* Properties of BuildingManager.                                          *)
(***************************************************************************)
\* the cells claimed for the buildings of activeBuildings
ClaimedCells == {bmActive[k].claimed : k \in 1..Len(bmActive)}

\* C29: after initializeArea and any update(playerPosition) calls, the keys
\* of occupiedCells are exactly the cells claimed for the buildings of
\* activeBuildings, the cell an update deletes for a despawned building is
\* the cell claimed when it was spawned, and every despawned building was
\* in use and is back in the pool's free list, once.
C29_Occupancy ==
    /\ [](bmPc = "area" => bmOccupied = ClaimedCells)
    /\ [][bmEvt'.op = "update" =>
            \A k \in 1..Len(bmEvt'.released) :
               LET b == bmEvt'.released[k]
               IN  /\ ReleasedCell(b) = b.claimed
                   /\ b.obj \in Range(bmPool'.available)
                   /\ b.obj \notin Range(bmPool'.inUse)
                   /\ Cardinality({j \in 1..Len(bmPool'.available) :
                                     bmPool'.available[j] = b.obj}) = 1]_vars

====
